---- MODULE Spec2Model ----
(***************************************************************************)
(* Tool execution engine of the agent: ToolRegistry (tools/registry.py),   *)
(* CircuitBreaker (resilience/circuit_breaker.py) and ToolExecutor         *)
(* (tools/executor.py).                                                    *)
(*                                                                         *)
(* One step of the model is one run of the event loop between two awaits:  *)
(* execute() up to its await of the callable, the resumption of execute()  *)
(* when the callable returns, raises or the timeout expires, and each      *)
(* synchronous registry / breaker operation.  What execute returns is not  *)
(* part of the state: it is the value of the operators *_result below in   *)
(* the state in which the step is taken.                                   *)
(*                                                                         *)
(* On top of the engine: ToolExecutor.execute_parallel (a batch of execute *)
(* calls gathered in input order), ConversationMemory (core/memory.py) and *)
(* the ReAct loop of ReactAgent (core/agent.py).  Each part has its own    *)
(* specification; the variables of the other parts stay as Init left them. *)
(***************************************************************************)
EXTENDS Integers, Sequences, FiniteSets, TLC

\* ---------------------------------------------------------------- bounds
\* Number of execute() calls made in one behaviour.
MaxCalls == 3
\* Last instant of the clock (datetime.now() / time.time(), in seconds).
MaxTime == 3
\* ToolExecutor(circuit_breaker_threshold=...), scaled down from 5.
FailureThreshold == 2
\* ToolExecutor(circuit_breaker_timeout=...), scaled down from 60.
RecoveryTimeout == 1
\* ToolExecutor(default_timeout=...), scaled down from 30.0.
DefaultTimeout == 2
\* A timeout declared at registration, registry.tool(timeout=...).
DeclaredTimeout == 1

\* Longest list of calls given to execute_parallel.
MaxBatch == 2
\* ReactAgent(max_iterations=...), scaled down from 15.
MaxIterations == 2
\* Number of user messages one agent is given.
MaxTurns == 1
\* Largest max_messages a ConversationMemory is constructed with.
MaxMessages == 5
\* Number of add_* calls made on one memory object.
MaxAppends == 6
\* Number of registrations made on one registry.
MaxRegistrations == 2

\* ------------------------------------------------------ program constants
\* ConversationMemory.max_messages = 100, scaled down.
DefaultMaxMessages == 4
\* CircuitBreaker(success_threshold=2): the executor never overrides it.
SuccessThreshold == 2

\* The tools registered at startup, and the names a caller may pass to
\* execute: the model may request a tool nobody registered.
ToolNames == {"calc", "shell"}
CallNames == ToolNames \cup {"nope"}
\* What a callable may return (None included) and str(e) of what it raises.
ReturnValues == {"None", "out"}
Messages == {"boom"}
\* Classes of failure a callable raises, as the except clauses tell them
\* apart: asyncio.TimeoutError and every other Exception.  What is no
\* Exception (CancelledError, KeyboardInterrupt, SystemExit) is a signal to
\* the caller, not a failure of the tool, and is not modelled.
ExceptionKinds == {"TimeoutError", "Exception"}

CLOSED == "closed"
OPEN == "open"
HALF_OPEN == "half_open"
\* _last_failure = None
NoTime == -1
\* No model query made yet.
NoLLM == "None"

VARIABLES
  tools,             \* ToolRegistry._tools, in insertion order
  circuit_breakers,  \* ToolExecutor._circuit_breakers: name -> breaker
  now,               \* the wall clock
  ncalls,            \* execute() calls made so far; the last call's id
  pending,           \* execute() calls suspended in await wait_for(...)
  running,           \* ids of the callables still executing
  messages,          \* ConversationMemory.messages
  max_messages,      \* ConversationMemory.max_messages
  appended,          \* the messages given to add_* on this memory object,
                     \* in the order of the calls (history, never read)
  calls,             \* tool_calls of the execute_parallel in progress
  launched,          \* how many of its tasks have started to run
  results,           \* the result of each task of gather, by position
  finished,          \* positions of the tasks that are done, in the
                     \* order in which they finished
  hung,              \* ids of the calls whose callable never returns
  streaming,         \* the call in progress is process_stream, not process
  pc,                \* where process is: "idle" before the first call,
                     \* "query" awaiting the model, "tools" awaiting
                     \* execute_parallel, else the way the last call ended
  iterations,        \* iteration + 1 of the loop of process
  response,          \* the last LLMResponse: content and tool_calls
  tool_calls_made,   \* the list process builds for its AgentResponse
  outcome,           \* what the last call returned (process) or yielded
                     \* last (process_stream)
  events,            \* the AgentEvents the process_stream call in progress
                     \* has yielded, in order
  queried,           \* the self.llm the last model query was sent to
  retry_state,       \* tenacity's RetryCallState of the call a with_retry
                     \* wrapper is making, with what the wrapper did
  registrations,     \* the names given to ToolRegistry.tool / register, in
                     \* the order of the calls (history, never read)
  agents,            \* server.agents: client_id -> the breakers of the
                     \* ToolExecutor of that connection's ReactAgent
  session,           \* one websocket connection: the client's end, the
                     \* messages on their way, where chat_websocket is,
                     \* the agent's self.llm
  threads            \* the threads calling one breaker: where each is
                     \* in its method and the locals it holds

execVars == <<tools, circuit_breakers, now, ncalls, pending, running>>
memVars == <<messages, max_messages, appended>>
batchVars == <<calls, launched, results, finished, hung>>
agentVars ==
  <<streaming, pc, iterations, response, tool_calls_made, outcome, events,
    queried>>
serviceVars == <<retry_state, registrations, agents, session, threads>>
vars == <<execVars, memVars, batchVars, agentVars, serviceVars>>
outsideEngine == <<memVars, batchVars, agentVars, serviceVars>>
outsideMemory == <<execVars, batchVars, agentVars, serviceVars>>

\* --------------------------------------------------------------- registry
RegisteredTool(name, is_async, timeout) ==
  [name |-> name, is_async |-> is_async, timeout |-> timeout, enabled |-> TRUE]

registered(name) == \E i \in DOMAIN tools : tools[i].name = name

index(name) == CHOOSE i \in DOMAIN tools : tools[i].name = name

get(name) == tools[index(name)]

IsEnabled(t) == t.enabled

\* list_tools without the filter on enabled.
list_tools_all == tools

list_tools == SelectSeq(tools, IsEnabled)

list_names == [i \in DOMAIN list_tools |-> list_tools[i].name]

\* enable and disable both clearing the flag.
set_enabled_off(name, flag) ==
  IF registered(name)
  THEN [tools EXCEPT ![index(name)].enabled = FALSE]
  ELSE tools

\* enable(name) and disable(name): nothing happens to an unknown name.
set_enabled(name, flag) ==
  IF registered(name)
  THEN [tools EXCEPT ![index(name)].enabled = flag]
  ELSE tools

\* ---------------------------------------------------------------- breaker
CircuitBreaker ==
  [state |-> CLOSED, failure_count |-> 0, success_count |-> 0,
   last_failure |-> NoTime]

\* _should_attempt_reset comparing with >= instead of >.
should_attempt_reset_early(cb, t) ==
  IF cb.last_failure = NoTime
  THEN FALSE
  ELSE t - cb.last_failure >= RecoveryTimeout

should_attempt_reset(cb, t) ==
  IF cb.last_failure = NoTime
  THEN FALSE
  ELSE t - cb.last_failure > RecoveryTimeout

\* The state property taking a read of an OPEN breaker for a failure: the
\* recovery interval starts again.
state_postpones(cb, t) ==
  IF cb.state = OPEN /\ should_attempt_reset(cb, t)
  THEN [cb EXCEPT !.state = HALF_OPEN, !.success_count = 0]
  ELSE IF cb.state = OPEN
  THEN [cb EXCEPT !.last_failure = t]
  ELSE cb

\* The state property: the breaker after the read; the value read is its
\* state field.
state(cb, t) ==
  IF cb.state = OPEN /\ should_attempt_reset(cb, t)
  THEN [cb EXCEPT !.state = HALF_OPEN, !.success_count = 0]
  ELSE cb

\* check() reading the _state field instead of the state property, so that
\* an OPEN breaker whose recovery is due still rejects.
check_raises_field(cb, t) == cb.state = OPEN

\* check() raises CircuitBreakerOpen iff the state it reads is OPEN.
check_raises(cb, t) == state(cb, t).state = OPEN

\* record_success that closes the breaker without clearing the failures.
record_success_keeps_failures(cb) ==
  IF cb.state = HALF_OPEN
  THEN IF cb.success_count + 1 >= SuccessThreshold
       THEN [cb EXCEPT !.success_count = @ + 1, !.state = CLOSED]
       ELSE [cb EXCEPT !.success_count = @ + 1]
  ELSE [cb EXCEPT !.failure_count = 0]

record_success(cb) ==
  IF cb.state = HALF_OPEN
  THEN IF cb.success_count + 1 >= SuccessThreshold
       THEN [cb EXCEPT !.success_count = @ + 1, !.state = CLOSED,
                       !.failure_count = 0]
       ELSE [cb EXCEPT !.success_count = @ + 1]
  ELSE [cb EXCEPT !.failure_count = 0]

\* record_failure that keeps the failure time of an OPEN breaker.
record_failure_keeps_time(cb, t) ==
  LET c == [cb EXCEPT !.failure_count = @ + 1,
                      !.last_failure = IF cb.state = OPEN THEN @ ELSE t]
  IN  IF c.state = HALF_OPEN
      THEN [c EXCEPT !.state = OPEN]
      ELSE IF c.failure_count >= FailureThreshold
           THEN [c EXCEPT !.state = OPEN]
           ELSE c

\* record_failure that counts the failure and stores no time.
record_failure_untimed(cb, t) ==
  LET c == [cb EXCEPT !.failure_count = @ + 1]
  IN  IF c.state = HALF_OPEN
      THEN [c EXCEPT !.state = OPEN]
      ELSE IF c.failure_count >= FailureThreshold
           THEN [c EXCEPT !.state = OPEN]
           ELSE c

\* record_failure without the HALF_OPEN branch: only the threshold opens.
record_failure_threshold_only(cb, t) ==
  LET c == [cb EXCEPT !.failure_count = @ + 1, !.last_failure = t]
  IN  IF c.failure_count >= FailureThreshold
      THEN [c EXCEPT !.state = OPEN]
      ELSE c

\* record_failure with the threshold compared by > instead of >=.
record_failure_late(cb, t) ==
  LET c == [cb EXCEPT !.failure_count = @ + 1, !.last_failure = t]
  IN  IF c.state = HALF_OPEN
      THEN [c EXCEPT !.state = OPEN]
      ELSE IF c.failure_count > FailureThreshold
           THEN [c EXCEPT !.state = OPEN]
           ELSE c

record_failure(cb, t) ==
  LET c == [cb EXCEPT !.failure_count = @ + 1, !.last_failure = t]
  IN  IF c.state = HALF_OPEN
      THEN [c EXCEPT !.state = OPEN]
      ELSE IF c.failure_count >= FailureThreshold
           THEN [c EXCEPT !.state = OPEN]
           ELSE c

\* CircuitBreaker.reset(): the breaker as it was constructed.
breaker_reset(cb) ==
  [cb EXCEPT !.state = CLOSED, !.failure_count = 0, !.success_count = 0,
             !.last_failure = NoTime]

\* --------------------------------------------------------------- executor
NoError == [kind |-> "None"]

ToolResult(id, name, success, result, error, ms) ==
  [tool_call_id |-> id, tool_name |-> name, success |-> success,
   result |-> result, error |-> error, execution_time_ms |-> ms]

\* f"Unknown tool: '{tool_name}'. Available tools: {', '.join(list_names())}"
UnknownToolError(name) ==
  [kind |-> "Unknown tool", tool_name |-> name, available |-> list_names]

\* f"Tool '{tool_name}' is currently disabled"
DisabledError(name) == [kind |-> "is currently disabled", tool_name |-> name]

\* f"Tool '{tool_name}' is temporarily unavailable due to repeated failures..."
UnavailableError(name) ==
  [kind |-> "is temporarily unavailable", tool_name |-> name]

\* f"Tool '{tool_name}' timed out after {timeout} seconds"
TimedOutError(name, timeout) ==
  [kind |-> "timed out after", tool_name |-> name, timeout |-> timeout]

\* f"Tool execution error: {str(e)}"
ExecutionError(msg) == [kind |-> "Tool execution error", message |-> msg]

\* timeout = tool.timeout or self.default_timeout
effective_timeout(tool) ==
  IF tool.timeout = 0 THEN DefaultTimeout ELSE tool.timeout

get_circuit_breaker(name) ==
  IF name \in DOMAIN circuit_breakers
  THEN circuit_breakers[name]
  ELSE CircuitBreaker

\* The call execute suspends on: the tool object it looked up, its timeout
\* and start_time.
Call(id, tool) ==
  [id |-> id, name |-> tool.name, is_async |-> tool.is_async,
   timeout |-> effective_timeout(tool), start |-> now]

\* (time.time() - start_time) * 1000
elapsed_ms(call) == (now - call.start) * 1000

\* The three returns that precede the invocation, lines 72-103.
unknown_result(id, name) ==
  ToolResult(id, name, FALSE, "None", UnknownToolError(name), 0)

disabled_result(id, name) ==
  ToolResult(id, name, FALSE, "None", DisabledError(name), 0)

unavailable_result(id, name) ==
  ToolResult(id, name, FALSE, "None", UnavailableError(name), 0)

\* Whether execute(name) gets as far as invoking the callable.
admits(name) ==
  /\ registered(name)
  /\ get(name).enabled
  /\ ~check_raises(get_circuit_breaker(name), now)

\* What execute(id, name, ...) returns when it does not invoke the callable.
early_result(id, name) ==
  IF ~registered(name) THEN unknown_result(id, name)
  ELSE IF ~get(name).enabled THEN disabled_result(id, name)
  ELSE unavailable_result(id, name)

\* The three returns that follow the await, lines 125-162.
success_result(call, value) ==
  ToolResult(call.id, call.name, TRUE, value, NoError, elapsed_ms(call))

timeout_result(call) ==
  ToolResult(call.id, call.name, FALSE, "None",
             TimedOutError(call.name, call.timeout), elapsed_ms(call))

error_result(call, msg) ==
  ToolResult(call.id, call.name, FALSE, "None", ExecutionError(msg),
             elapsed_ms(call))

\* The except clauses in their order: asyncio.TimeoutError, then Exception.
raised_result(call, kind, msg) ==
  IF kind = "TimeoutError"
  THEN timeout_result(call)
  ELSE error_result(call, msg)

\* ------------------------------------------------------------------ retry
\* resilience/retry.py.  Waits are counted in half seconds, so that the
\* min_wait of 0.5 s is the integer 1.
Second == 2

\* What a wrapped call may raise.  ConnectionError and TimeoutError are
\* subclasses of OSError.
FailureKinds == {"ConnectionError", "TimeoutError", "OSError", "ValueError"}

subclasses(type) ==
  IF type = "OSError"
  THEN {"OSError", "ConnectionError", "TimeoutError"}
  ELSE {type}

\* retry_if_exception_type(types): isinstance(e, types)
retry_if_exception_type(types, kind) ==
  \E type \in types : kind \in subclasses(type)

\* with_retry(max_attempts, min_wait, max_wait, retryable_exceptions)
with_retry(max_attempts, min_wait, max_wait, retryable_exceptions) ==
  [max_attempts |-> max_attempts, min_wait |-> min_wait,
   max_wait |-> max_wait, retryable_exceptions |-> retryable_exceptions]

\* with_retry(): the defaults of its parameters.
default_retry ==
  with_retry(3, 1 * Second, 30 * Second, {"ConnectionError", "TimeoutError"})

llm_retry ==
  with_retry(3, 1 * Second, 60 * Second,
             {"ConnectionError", "TimeoutError", "OSError"})

\* min_wait = 0.5
external_service_retry ==
  with_retry(5, 1, 30 * Second, {"ConnectionError", "TimeoutError"})

Policies == {default_retry, llm_retry, external_service_retry}

Max(a, b) == IF a >= b THEN a ELSE b
Min(a, b) == IF a <= b THEN a ELSE b

\* stop_after_attempt(max_attempts)
stop_after_attempt(policy, attempt_number) ==
  attempt_number >= policy.max_attempts

\* wait_exponential(multiplier=1, min=min_wait, max=max_wait) after attempt
\* number attempt_number:
\*   max(max(0, min), min(multiplier * 2 ** (attempt_number - 1), max))
wait_exponential(policy, attempt_number) ==
  Max(Max(0, policy.min_wait),
      Min(1 * Second * 2 ^ (attempt_number - 1), policy.max_wait))

\* What the wrapper has handed to its caller: nothing yet, the value of the
\* call, or an exception; wrapped tells a RetryError around the exception
\* from the exception itself.
NoOutcome == [status |-> "none", exception |-> "None", wrapped |-> FALSE]
Returned == [status |-> "returned", exception |-> "None", wrapped |-> FALSE]

\* reraise=True: the exception of the last attempt, as it was raised.
Raised(kind) == [status |-> "raised", exception |-> kind, wrapped |-> FALSE]

\* RetryCallState before the wrapper is called.
RetryCallState(policy) ==
  [policy |-> policy, attempt_number |-> 0, calling |-> FALSE,
   failures |-> <<>>, slept |-> <<>>, outcome |-> NoOutcome]

\* server.py lines 180-199: chat_websocket has accepted the connection, made
\* the agent with the LLM of the settings and waits for the first message.
Session ==
  [connected |-> TRUE, inbox |-> <<>>, at |-> "receive_json",
   llm |-> "settings.llm"]

\* No wrapped call made, no connection in server.agents, no thread on a
\* breaker.
InitService ==
  /\ retry_state = RetryCallState(llm_retry)
  /\ registrations = <<>>
  /\ agents = <<>>
  /\ session = Session
  /\ threads = <<>>

\* ---------------------------------------------------------------- actions
\* ToolRegistry after the startup registrations, ToolExecutor(registry).
InitEngine ==
  /\ tools = <<RegisteredTool("calc", FALSE, 0),
              RegisteredTool("shell", TRUE, DeclaredTimeout)>>
  /\ circuit_breakers = <<>>
  /\ now = 0
  /\ ncalls = 0
  /\ pending = {}
  /\ running = {}

\* No execute_parallel in progress.
InitBatch ==
  /\ calls = <<>>
  /\ launched = 0
  /\ results = <<>>
  /\ finished = <<>>
  /\ hung = {}

\* LLMResponse(content, tool_calls)
LLMResponse(content, tool_calls) ==
  [content |-> content, tool_calls |-> tool_calls]

\* No process call made yet.
InitLoop ==
  /\ streaming = FALSE
  /\ pc = "idle"
  /\ iterations = 0
  /\ response = LLMResponse("", <<>>)
  /\ tool_calls_made = <<>>
  /\ outcome = [type |-> "none"]
  /\ events = <<>>
  /\ queried = NoLLM

\* ReactAgent.__init__: the engine and ConversationMemory().
Init ==
  /\ InitEngine
  /\ InitBatch
  /\ InitLoop
  /\ InitService
  /\ messages = <<>>
  /\ max_messages = DefaultMaxMessages
  /\ appended = <<>>

Tick ==
  /\ now < MaxTime
  /\ now' = now + 1
  /\ UNCHANGED <<tools, circuit_breakers, ncalls, pending, running>>

enable(name) ==
  /\ tools' = set_enabled(name, TRUE)
  /\ UNCHANGED <<circuit_breakers, now, ncalls, pending, running>>

disable(name) ==
  /\ tools' = set_enabled(name, FALSE)
  /\ UNCHANGED <<circuit_breakers, now, ncalls, pending, running>>

\* Reads cb.state of every breaker created so far.
get_circuit_breaker_status ==
  /\ circuit_breakers' =
       [n \in DOMAIN circuit_breakers |-> state(circuit_breakers[n], now)]
  /\ UNCHANGED <<tools, now, ncalls, pending, running>>

\* execute(), lines 70-123: up to the await of the callable.  The call's
\* tool_call_id is the number of the call.
execute(name) ==
  /\ ncalls' = ncalls + 1
  /\ UNCHANGED <<tools, now>>
  /\ IF ~registered(name)
     THEN UNCHANGED <<circuit_breakers, pending, running>>
     ELSE IF ~get(name).enabled
     THEN UNCHANGED <<circuit_breakers, pending, running>>
     ELSE LET cb == get_circuit_breaker(name) IN
          /\ circuit_breakers' = (name :> state(cb, now)) @@ circuit_breakers
          /\ IF check_raises(cb, now)
             THEN UNCHANGED <<pending, running>>
             ELSE /\ pending' = pending \cup {Call(ncalls + 1, get(name))}
                  /\ running' = running \cup {ncalls + 1}

\* Lines 125-134: the callable returned `value` before the timeout expired;
\* the value goes into the result (success_result), not into the state.
execute_returns(call, value) ==
  /\ now - call.start < call.timeout
  /\ pending' = pending \ {call}
  /\ running' = running \ {call.id}
  /\ circuit_breakers' = [circuit_breakers EXCEPT
                            ![call.name] = record_success(@)]
  /\ UNCHANGED <<tools, now, ncalls>>

\* wait_for's timeout: a coroutine is cancelled and awaited; the future of
\* run_in_executor is cancelled, the worker thread runs on.
cancel(call) == IF call.is_async THEN running \ {call.id} ELSE running

\* execute_timeout with wait_for around the coroutines only: a callable run
\* in the executor is awaited without a timeout.
execute_timeout_async_only(call) ==
  /\ call.is_async
  /\ now - call.start >= call.timeout
  /\ pending' = pending \ {call}
  /\ running' = cancel(call)
  /\ circuit_breakers' = [circuit_breakers EXCEPT
                            ![call.name] = record_failure(@, now)]
  /\ UNCHANGED <<tools, now, ncalls>>

\* Lines 136-148: except asyncio.TimeoutError, raised by wait_for.
execute_timeout(call) ==
  /\ now - call.start >= call.timeout
  /\ pending' = pending \ {call}
  /\ running' = cancel(call)
  /\ circuit_breakers' = [circuit_breakers EXCEPT
                            ![call.name] = record_failure(@, now)]
  /\ UNCHANGED <<tools, now, ncalls>>

\* execute_raises without the record_failure of the except clause.
execute_raises_unrecorded(call, kind, msg) ==
  /\ now - call.start < call.timeout
  /\ pending' = pending \ {call}
  /\ running' = running \ {call.id}
  /\ UNCHANGED <<tools, circuit_breakers, now, ncalls>>

\* Lines 136-162: the callable raised a failure of class `kind` with message
\* `msg` before the timeout expired; both except clauses record a failure,
\* kind and msg go into the result (raised_result).
execute_raises(call, kind, msg) ==
  /\ now - call.start < call.timeout
  /\ pending' = pending \ {call}
  /\ running' = running \ {call.id}
  /\ circuit_breakers' = [circuit_breakers EXCEPT
                            ![call.name] = record_failure(@, now)]
  /\ UNCHANGED <<tools, now, ncalls>>

\* A worker thread abandoned by a timeout runs its callable to the end.
thread_exits(id) ==
  /\ \A call \in pending : call.id # id
  /\ running' = running \ {id}
  /\ UNCHANGED <<tools, circuit_breakers, now, ncalls, pending>>

\* The program driven by callers that name the tools of `names` and make
\* at most `budget` calls.
Step(names, budget) ==
  \/ Tick /\ UNCHANGED outsideEngine
  \/ \E name \in names : enable(name) /\ UNCHANGED outsideEngine
  \/ \E name \in names : disable(name) /\ UNCHANGED outsideEngine
  \/ get_circuit_breaker_status /\ UNCHANGED outsideEngine
  \/ \E name \in names :
       ncalls < budget /\ execute(name) /\ UNCHANGED outsideEngine
  \/ \E call \in pending, value \in ReturnValues :
       execute_returns(call, value) /\ UNCHANGED outsideEngine
  \/ \E call \in pending :
       execute_timeout(call) /\ UNCHANGED outsideEngine
  \/ \E call \in pending, kind \in ExceptionKinds, msg \in Messages :
       execute_raises(call, kind, msg) /\ UNCHANGED outsideEngine
  \/ \E id \in running : thread_exits(id) /\ UNCHANGED outsideEngine

\* Any caller: every name, known or not.
Next == Step(CallNames, MaxCalls)

Spec == Init /\ [][Next]_vars

\* One tool called over and over, long enough for its breaker to open,
\* recover and open again.
NextOneTool == Step({"calc"}, MaxCalls + 2)

SpecOneTool == Init /\ [][NextOneTool]_vars

\* ----------------------------------------------------------------- memory
\* What the free appends of the memory specification draw from.
Contents == {"text"}
ToolCallIds == {1}

\* tool_call_id = None and tool_calls = None of an LLMMessage.
NoToolCallId == 0
NoToolCalls == <<>>

\* LLMMessage(role, content, tool_call_id=None, tool_calls=None)
LLMMessage(role, content, tool_call_id, tool_calls) ==
  [tool_call_id |-> tool_call_id, content |-> content,
   tool_calls |-> tool_calls, role |-> role]

\* ToolCall(id, name, input); the arguments are not modelled.
ToolCall(id, name) == [name |-> name, id |-> id, input |-> "{}"]

\* {"id": tc.id, "name": tc.name, "input": tc.input}
tool_call_dict(tc) == [name |-> tc.name, id |-> tc.id, input |-> tc.input]

\* tc_dicts that keeps the first requested call only.
tc_dicts_first(tool_calls) ==
  IF tool_calls = <<>>
  THEN NoToolCalls
  ELSE <<tool_call_dict(tool_calls[1])>>

\* tc_dicts of add_assistant_message: None for no (or an empty) list.
tc_dicts(tool_calls) ==
  IF tool_calls = <<>>
  THEN NoToolCalls
  ELSE [i \in DOMAIN tool_calls |-> tool_call_dict(tool_calls[i])]

\* _trim_if_needed that drops one message whatever the excess is.
trim_one_if_needed(msgs, max) ==
  IF Len(msgs) > max
  THEN SubSeq(msgs, 2, Len(msgs))
  ELSE msgs

\* self.messages = self.messages[excess:]
trim_if_needed(msgs, max) ==
  IF Len(msgs) > max
  THEN SubSeq(msgs, Len(msgs) - max + 1, Len(msgs))
  ELSE msgs

\* self.messages.append(msg); self._trim_if_needed()
append_and_trim(msgs, msg) == trim_if_needed(Append(msgs, msg), max_messages)

user_message(content) ==
  LLMMessage("user", content, NoToolCallId, NoToolCalls)

assistant_message(content, tool_calls) ==
  LLMMessage("assistant", content, NoToolCallId, tc_dicts(tool_calls))

tool_result_message(tool_call_id, result) ==
  LLMMessage("tool_result", result, tool_call_id, NoToolCalls)

get_messages == messages

\* LLMMessage.to_dict without the tool_calls key.
message_to_dict_short(m) ==
  [tool_call_id |-> m.tool_call_id, content |-> m.content, role |-> m.role]

\* LLMMessage.to_dict
message_to_dict(m) ==
  [tool_call_id |-> m.tool_call_id, content |-> m.content,
   tool_calls |-> m.tool_calls, role |-> m.role]

\* ConversationMemory.to_dict
to_dict(msgs) == [i \in DOMAIN msgs |-> message_to_dict(msgs[i])]

\* LLMMessage(**item): a key the record lacks takes the field's default.
message_from_dict(item) ==
  LLMMessage(item.role, item.content,
             IF "tool_call_id" \in DOMAIN item
             THEN item.tool_call_id ELSE NoToolCallId,
             IF "tool_calls" \in DOMAIN item
             THEN item.tool_calls ELSE NoToolCalls)

\* ConversationMemory.from_dict: cls() and one plain append per record.
from_dict(data) ==
  [max_messages |-> DefaultMaxMessages,
   messages |-> [i \in DOMAIN data |-> message_from_dict(data[i])]]

add_message(msg) ==
  /\ Len(appended) < MaxAppends
  /\ messages' = append_and_trim(messages, msg)
  /\ appended' = Append(appended, msg)
  /\ UNCHANGED <<max_messages, outsideMemory>>

add_user_message(content) == add_message(user_message(content))

add_assistant_message(content, tool_calls) ==
  add_message(assistant_message(content, tool_calls))

add_tool_result(tool_call_id, result) ==
  add_message(tool_result_message(tool_call_id, result))

\* The memory is serialized and replaced by the object from_dict builds.
reload ==
  /\ messages' = from_dict(to_dict(messages)).messages
  /\ max_messages' = from_dict(to_dict(messages)).max_messages
  /\ appended' = <<>>
  /\ UNCHANGED outsideMemory

\* ConversationMemory(max_messages=M), any M
InitMemory ==
  /\ InitEngine
  /\ InitBatch
  /\ InitLoop
  /\ InitService
  /\ messages = <<>>
  /\ max_messages \in 1..MaxMessages
  /\ appended = <<>>

\* ConversationMemory.clear(): self.messages = [].  The history of the
\* appends starts again.
clear ==
  /\ messages' = <<>>
  /\ appended' = <<>>
  /\ UNCHANGED <<max_messages, outsideMemory>>

NextMemory ==
  \/ \E content \in Contents : add_user_message(content)
  \/ \E content \in Contents, id \in ToolCallIds :
       add_assistant_message(content, <<ToolCall(id, "calc")>>)
  \/ \E content \in Contents : add_assistant_message(content, <<>>)
  \/ \E id \in ToolCallIds, content \in Contents :
       add_tool_result(id, content)
  \/ reload
  \/ clear

SpecMemory == InitMemory /\ [][NextMemory]_vars

\* ---------------------------------------------------------- retry wrapper
\* A function decorated with with_retry(...) is called: the first attempt.
call_wrapped(policy) ==
  /\ ~retry_state.calling
  /\ retry_state' = [RetryCallState(policy) EXCEPT
                       !.attempt_number = 1, !.calling = TRUE]
  /\ UNCHANGED <<execVars, memVars, batchVars, agentVars, registrations,
                 agents, session, threads>>

\* The attempt in progress returns: the wrapper returns its value.
attempt_returns ==
  /\ retry_state.calling
  /\ retry_state' = [retry_state EXCEPT
                       !.calling = FALSE, !.outcome = Returned]
  /\ UNCHANGED <<execVars, memVars, batchVars, agentVars, registrations,
                 agents, session, threads>>

\* The attempt in progress raises an exception of class `kind`: it reaches
\* the caller when it is not retryable or when the attempts are used up
\* (reraise=True), else the wrapper sleeps and calls again.
attempt_raises(kind) ==
  /\ retry_state.calling
  /\ LET policy == retry_state.policy
         n == retry_state.attempt_number
         failed == [retry_state EXCEPT !.failures = Append(@, kind)]
     IN  retry_state' =
           IF ~retry_if_exception_type(policy.retryable_exceptions, kind)
           THEN [failed EXCEPT !.calling = FALSE, !.outcome = Raised(kind)]
           ELSE IF stop_after_attempt(policy, n)
           THEN [failed EXCEPT !.calling = FALSE, !.outcome = Raised(kind)]
           ELSE [failed EXCEPT
                   !.slept = Append(@, wait_exponential(policy, n)),
                   !.attempt_number = n + 1]
  /\ UNCHANGED <<execVars, memVars, batchVars, agentVars, registrations,
                 agents, session, threads>>

NextRetry ==
  \/ \E policy \in Policies : call_wrapped(policy)
  \/ attempt_returns
  \/ \E kind \in FailureKinds : attempt_raises(kind)

SpecRetry == Init /\ [][NextRetry]_vars

\* ----------------------------------------------------------- registration
\* The callables given to the registry: __name__, whether a coroutine
\* function, and the first paragraph of the docstring.
Callables ==
  {[name |-> "calc", is_async |-> FALSE, doc |-> "Evaluate"],
   [name |-> "shell", is_async |-> TRUE, doc |-> ""]}

\* name=None, description=None and tags=None of tool / register.
NoName == ""
NoDescription == ""
NoTags == <<>>

NameOverrides == {NoName, "calc"}
Descriptions == {NoDescription, "A test tool"}
Timeouts == {DeclaredTimeout, DeclaredTimeout + 1}
TagLists == {NoTags, <<"io">>}

\* tool_name = name or func.__name__
tool_name(func, name) == IF name = NoName THEN func.name ELSE name

\* function_to_schema: description_override or main_description or
\* func.__name__
schema_description(func, description) ==
  IF description # NoDescription THEN description
  ELSE IF func.doc # "" THEN func.doc
  ELSE func.name

\* Lines 55-63: the RegisteredTool the decorator builds.
registration(func, name, description, timeout, tags) ==
  [func |-> func, description |-> schema_description(func, description),
   tags |-> tags]
  @@ RegisteredTool(tool_name(func, name), func.is_async, timeout)

\* The tags a caller of list_tools may give; NoTags for tags=None.
TagFilters == {NoTags, <<"io">>, <<"net">>, <<"io", "net">>}

\* any(tag in t.tags for tag in tags)
any_tag(t, tags) ==
  \E i \in DOMAIN tags, j \in DOMAIN t.tags : tags[i] = t.tags[j]

\* list_tools(tags) keeping the tools that carry every tag given.
list_tools_every_tag(tags) ==
  SelectSeq(IF tags # <<>>
            THEN SelectSeq(tools,
                           LAMBDA t : \A i \in DOMAIN tags :
                                        \E j \in DOMAIN t.tags :
                                          tags[i] = t.tags[j])
            ELSE tools,
            IsEnabled)

\* Lines 100-105: list_tools(tags); `if tags:` takes None and the empty
\* list alike.
list_tools_tagged(tags) ==
  SelectSeq(IF tags # <<>>
            THEN SelectSeq(tools, LAMBDA t : any_tag(t, tags))
            ELSE tools,
            IsEnabled)

\* A registry that refuses a name it already holds.
tools_with_first(new) ==
  IF registered(new.name) THEN tools ELSE Append(tools, new)

\* self._tools[tool_name] = registered: a dict keeps the place of a key it
\* already holds.
tools_with(new) ==
  IF registered(new.name)
  THEN [tools EXCEPT ![index(new.name)] = new]
  ELSE Append(tools, new)

\* del self._tools[name]
tools_without(name) == SelectSeq(tools, LAMBDA t : t.name # name)

\* ToolRegistry.tool(...)(func) and ToolRegistry.register(func, ...).
register(func, name, description, timeout, tags) ==
  /\ Len(registrations) < MaxRegistrations
  /\ tools' = tools_with(registration(func, name, description, timeout,
                                      tags))
  /\ registrations' = Append(registrations, tool_name(func, name))
  /\ UNCHANGED <<circuit_breakers, now, ncalls, pending, running>>
  /\ UNCHANGED <<memVars, batchVars, agentVars, retry_state, agents,
                 session, threads>>

unregister(name) ==
  /\ tools' = tools_without(name)
  /\ UNCHANGED <<circuit_breakers, now, ncalls, pending, running>>
  /\ UNCHANGED outsideEngine

\* ToolRegistry(): nothing registered.
InitRegistry ==
  /\ tools = <<>>
  /\ circuit_breakers = <<>>
  /\ now = 0
  /\ ncalls = 0
  /\ pending = {}
  /\ running = {}
  /\ InitBatch
  /\ InitLoop
  /\ InitService
  /\ messages = <<>>
  /\ max_messages = DefaultMaxMessages
  /\ appended = <<>>

NextRegistry ==
  \/ \E func \in Callables, name \in NameOverrides,
        description \in Descriptions, timeout \in Timeouts,
        tags \in TagLists :
       register(func, name, description, timeout, tags)
  \/ \E name \in ToolNames : unregister(name)
  \/ \E name \in ToolNames : enable(name) /\ UNCHANGED outsideEngine
  \/ \E name \in ToolNames : disable(name) /\ UNCHANGED outsideEngine

SpecRegistry == InitRegistry /\ [][NextRegistry]_vars

\* ------------------------------------------------------------------ batch
\* A task of gather that is not done yet.
NoResult == [tool_call_id |-> 0]

\* The lists of 1..MaxBatch tool names a caller may ask for.
Batches == UNION {[1..n -> CallNames] : n \in 1..MaxBatch}

\* The timeout a call of the batch may run into.
longest_timeout == IF DefaultTimeout > DeclaredTimeout
                   THEN DefaultTimeout ELSE DeclaredTimeout

\* The position in the batch of the task that runs `call`.
position(call) == CHOOSE i \in DOMAIN calls : calls[i].id = call.id

\* The task at position i is done.
done(i) == results[i] # NoResult

\* A gather that hands out the results as the tasks finish.
gather_as_completed == [k \in DOMAIN finished |-> results[finished[k]]]

\* asyncio.gather(*tasks): the results in the order of the tasks.
gather == [i \in DOMAIN calls |-> results[i]]

\* Lines 174-181: one task per call; the caller numbers its calls with the
\* ids that follow the ones it has used.
gather_tasks(tool_calls) ==
  /\ calls = <<>>
  /\ calls' = [i \in DOMAIN tool_calls |-> tool_call_dict(tool_calls[i])]
  /\ launched' = 0
  /\ results' = [i \in DOMAIN tool_calls |-> NoResult]
  /\ finished' = <<>>
  /\ UNCHANGED <<execVars, hung>>

\* The calls a caller may ask for next: tools named `names`, numbered with
\* the ids that follow the ones in use, as many as the call budget leaves
\* and as early as lets the longest timeout expire.
requested(names) == [i \in DOMAIN names |-> ToolCall(ncalls + i, names[i])]

may_request(names) ==
  /\ ncalls + Len(names) <= MaxCalls
  /\ now + longest_timeout <= MaxTime

execute_parallel(names) ==
  /\ may_request(names)
  /\ gather_tasks(requested(names))
  /\ UNCHANGED <<memVars, agentVars, serviceVars>>

\* The next task runs execute up to its await, or to the end when the call
\* is rejected; hangs tells whether the callable it invokes ever returns.
task_starts(hangs) ==
  /\ launched < Len(calls)
  /\ LET i == launched + 1
         tc == calls[i]
     IN  /\ tc.id = ncalls + 1
         /\ execute(tc.name)
         /\ launched' = i
         /\ IF admits(tc.name)
            THEN /\ hung' = IF hangs THEN hung \cup {tc.id} ELSE hung
                 /\ UNCHANGED <<results, finished>>
            ELSE /\ ~hangs
                 /\ results' = [results EXCEPT
                                  ![i] = early_result(tc.id, tc.name)]
                 /\ finished' = Append(finished, i)
                 /\ UNCHANGED hung
  /\ UNCHANGED <<calls, memVars, agentVars, serviceVars>>

\* The task of `call` ends with `result`.
task_done(call, result) ==
  /\ results' = [results EXCEPT ![position(call)] = result]
  /\ finished' = Append(finished, position(call))
  /\ UNCHANGED <<calls, launched, hung, memVars, agentVars, serviceVars>>

task_returns(call, value) ==
  /\ call.id \notin hung
  /\ execute_returns(call, value)
  /\ task_done(call, success_result(call, value))

\* task_raises letting the failure out of execute: the task ends without a
\* result.
task_raises_escapes(call, kind, msg) ==
  /\ call.id \notin hung
  /\ execute_raises(call, kind, msg)
  /\ UNCHANGED <<batchVars, memVars, agentVars, serviceVars>>

task_raises(call, kind, msg) ==
  /\ call.id \notin hung
  /\ execute_raises(call, kind, msg)
  /\ task_done(call, raised_result(call, kind, msg))

task_timeout(call) ==
  /\ execute_timeout(call)
  /\ task_done(call, timeout_result(call))

\* Line 182: gather is done when every task is; the list it returns is
\* gather in the state in which the step is taken.
gather_returns ==
  /\ calls # <<>>
  /\ \A i \in DOMAIN calls : done(i)
  /\ calls' = <<>>
  /\ launched' = 0
  /\ results' = <<>>
  /\ finished' = <<>>
  /\ UNCHANGED <<execVars, hung>>

execute_parallel_returns == gather_returns /\ UNCHANGED <<memVars, agentVars, serviceVars>>

\* The clock while a batch may be in progress: starting the tasks takes no
\* time.
BatchTick == launched = Len(calls) /\ Tick /\ UNCHANGED outsideEngine

\* Some call in flight comes to its end.  What a callable returns or raises
\* makes no difference to the batch: one value and one class of failure.
Completes ==
  \E call \in pending :
    \/ task_returns(call, "out")
    \/ \E msg \in Messages : task_raises(call, "Exception", msg)
    \/ task_timeout(call)

NextBatch ==
  \/ \E names \in Batches : execute_parallel(names)
  \/ \E hangs \in BOOLEAN : task_starts(hangs)
  \/ \E call \in pending : task_returns(call, "out")
  \/ \E call \in pending, msg \in Messages :
       task_raises(call, "Exception", msg)
  \/ \E call \in pending : task_timeout(call)
  \/ execute_parallel_returns
  \/ BatchTick
  \/ \E id \in running \ hung : thread_exits(id) /\ UNCHANGED outsideEngine

SpecBatch == Init /\ [][NextBatch]_vars

\* Batches on a registry whose tools are disabled and enabled between
\* one batch and the next.
NextBatchAdmin ==
  \/ NextBatch
  \/ \E name \in ToolNames :
       calls = <<>> /\ enable(name) /\ UNCHANGED outsideEngine
  \/ \E name \in ToolNames :
       calls = <<>> /\ disable(name) /\ UNCHANGED outsideEngine

SpecBatchAdmin == Init /\ [][NextBatchAdmin]_vars

\* wait_for ends every await of a callable, the event loop runs every task
\* that is ready, and time passes.
SpecBatchFair ==
  /\ SpecBatch
  /\ WF_vars(BatchTick)
  /\ WF_vars(\E hangs \in BOOLEAN : task_starts(hangs))
  /\ WF_vars(Completes)
  /\ WF_vars(execute_parallel_returns)

\* ------------------------------------------------------------------ agent
\* The user messages and the texts of the model.
UserMessages == {"hello"}
ResponseTexts == {"text"}
\* The tool requests of one response: none, or up to MaxBatch calls of a
\* blocking tool or of a name that is not registered.
RequestNames == {"calc", "nope"}
Requests == {<<>>} \cup UNION {[1..n -> RequestNames] : n \in 1..MaxBatch}

\* ToolResult.to_message_content
to_message_content(r) ==
  IF r.success
  THEN [text |-> IF r.result = "None"
                 THEN "Success (no output)" ELSE r.result]
  ELSE [text |-> "Error", error |-> r.error]

\* AgentResponse reporting `iteration` where the code has `iteration + 1`.
AgentResponse_iteration(content, made, n) ==
  [type |-> "AgentResponse", content |-> content, tool_calls_made |-> made,
   iterations |-> n - 1]

\* AgentResponse(content, tool_calls_made, iterations, total_time_ms)
AgentResponse(content, made, n) ==
  [type |-> "AgentResponse", content |-> content, tool_calls_made |-> made,
   iterations |-> n]

\* AgentEvent(type, data)
AgentEvent(type, data) == [type |-> type, data |-> data]

\* The error text without str(e).
error_content_generic(msg) == "I encountered an error"

\* "I encountered an error while processing your request: {str(e)}"
error_content(msg) == "I encountered an error while processing your request: " \o msg

stock_message ==
  "I've reached my maximum number of steps for this task. Here's what I was able to accomplish so far."

\* The entry process adds to tool_calls_made for a result.
made(r) ==
  [name |-> r.tool_name, success |-> r.success,
   time_ms |-> r.execution_time_ms]

\* The tool_result message the loop adds for a result.
result_message(r) ==
  tool_result_message(r.tool_call_id, to_message_content(r))

\* The messages and the tool_calls_made entries of a list of results.
result_messages(rs) == [i \in DOMAIN rs |-> result_message(rs[i])]

made_entries(rs) == [i \in DOMAIN rs |-> made(rs[i])]

\* StreamChunk(type, content, tool_call, error)
NoChunkToolCall == [id |-> 0, name |-> "", input |-> "{}"]

StreamChunk(type, content, tool_call, error) ==
  [type |-> type, content |-> content, tool_call |-> tool_call,
   error |-> error]

\* The chunks llm.stream yields for a response with the text `content` and
\* the tool_use blocks `tool_calls`: the text, then for each block its start
\* and its end, then done.
stream_chunks(content, tool_calls) ==
  (IF content = ""
   THEN <<>>
   ELSE <<StreamChunk("text_delta", content, NoChunkToolCall, "")>>)
  \o [k \in 1..(2 * Len(tool_calls)) |->
        IF k % 2 = 1
        THEN StreamChunk("tool_use_start", "",
                         tool_calls[(k + 1) \div 2], "")
        ELSE StreamChunk("tool_use_complete", "", tool_calls[k \div 2], "")]
  \o <<StreamChunk("done", "", NoChunkToolCall, "")>>

\* What a stream that breaks has yielded before it broke: nothing, text, or
\* text and the chunks of a tool call.
PartialStreams ==
  {<<>>,
   <<StreamChunk("text_delta", "text", NoChunkToolCall, "")>>,
   <<StreamChunk("text_delta", "text", NoChunkToolCall, ""),
     StreamChunk("tool_use_start", "", ToolCall(ncalls + 1, "calc"), ""),
     StreamChunk("tool_use_complete", "", ToolCall(ncalls + 1, "calc"),
                 "")>>}

\* chunk_event passing the type of the chunk on as the type of the event.
chunk_event_same_type(chunk) ==
  IF chunk.type = "done"
  THEN <<>>
  ELSE <<AgentEvent(chunk.type,
                    [content |-> chunk.content,
                     tool_name |-> chunk.tool_call.name])>>

\* Lines 189-220: the event process_stream yields for a chunk, if any.
chunk_event(chunk) ==
  IF chunk.type = "text_delta"
  THEN <<AgentEvent("text_delta", [content |-> chunk.content])>>
  ELSE IF chunk.type = "tool_use_start"
  THEN <<AgentEvent("tool_start", [tool_name |-> chunk.tool_call.name])>>
  ELSE IF chunk.type = "tool_use_complete"
  THEN <<AgentEvent("tool_call_complete",
                    [tool_name |-> chunk.tool_call.name,
                     tool_id |-> chunk.tool_call.id])>>
  ELSE IF chunk.type = "error"
  THEN <<AgentEvent("error", [error |-> chunk.error])>>
  ELSE <<>>

RECURSIVE chunk_events(_)
chunk_events(chunks) ==
  IF chunks = <<>>
  THEN <<>>
  ELSE chunk_event(Head(chunks)) \o chunk_events(Tail(chunks))

\* collected taking the tool call of a tool_use_start chunk as well.
RECURSIVE collected_from_start(_)
collected_from_start(chunks) ==
  IF chunks = <<>>
  THEN LLMResponse("", <<>>)
  ELSE LET chunk == Head(chunks)
           rest == collected_from_start(Tail(chunks))
       IN  IF chunk.type = "text_delta"
           THEN LLMResponse(chunk.content \o rest.content, rest.tool_calls)
           ELSE IF chunk.type \in {"tool_use_start", "tool_use_complete"}
           THEN LLMResponse(rest.content,
                            <<chunk.tool_call>> \o rest.tool_calls)
           ELSE rest

\* Lines 180-203: full_content and tool_calls as process_stream collects
\* them from the chunks of a stream.
RECURSIVE collected(_)
collected(chunks) ==
  IF chunks = <<>>
  THEN LLMResponse("", <<>>)
  ELSE LET chunk == Head(chunks)
           rest == collected(Tail(chunks))
       IN  IF chunk.type = "text_delta"
           THEN LLMResponse(chunk.content \o rest.content, rest.tool_calls)
           ELSE IF chunk.type = "tool_use_complete"
           THEN LLMResponse(rest.content,
                            <<chunk.tool_call>> \o rest.tool_calls)
           ELSE rest

\* What the loop has in hand when the model answers with `content` and
\* `tool_calls`: the LLMResponse of llm.complete, or what process_stream
\* collected from the chunks of llm.stream.
received(content, tool_calls) ==
  IF streaming
  THEN collected(stream_chunks(content, tool_calls))
  ELSE LLMResponse(content, tool_calls)

\* Lines 263-270: the tool_result event of a result.
tool_result_event(r) ==
  AgentEvent("tool_result",
             [tool_name |-> r.tool_name, success |-> r.success,
              time_ms |-> r.execution_time_ms])

\* tool_result events for the successful results only.
tool_result_events_of_successes(rs) ==
  LET ok == SelectSeq(rs, LAMBDA r : r.success)
  IN  [i \in DOMAIN ok |-> tool_result_event(ok[i])]

tool_result_events(rs) == [i \in DOMAIN rs |-> tool_result_event(rs[i])]

\* add_* for each message of `new` in turn.
RECURSIVE add_all(_, _)
add_all(msgs, new) ==
  IF new = <<>>
  THEN msgs
  ELSE add_all(append_and_trim(msgs, Head(new)), Tail(new))

\* for result in results, with a loop that walks the results backwards.
results_reversed(rs) == [i \in DOMAIN rs |-> rs[Len(rs) + 1 - i]]

\* for result in results: the results in the order of the list.
results_in_order(rs) == rs

\* The memory takes the messages `new` by add_*.
remember(new) ==
  /\ messages' = add_all(messages, new)
  /\ appended' = appended \o new
  /\ UNCHANGED max_messages

\* The user messages given so far.
turns == Len(SelectSeq(appended, LAMBDA m : m.role = "user"))

\* Lines 84-104 / 160-188: process and process_stream up to the first model
\* query.
process_begins(text, stream) ==
  /\ pc \notin {"query", "tools"}
  /\ turns < MaxTurns
  /\ remember(<<user_message(text)>>)
  /\ streaming' = stream
  /\ tool_calls_made' = <<>>
  /\ iterations' = 1
  /\ pc' = "query"
  /\ outcome' = [type |-> "none"]
  /\ events' = IF stream
                THEN <<AgentEvent("processing_start", [message |-> text]),
                       AgentEvent("iteration_start", [iteration |-> 1])>>
                ELSE <<>>
  /\ queried' = session.llm
  /\ UNCHANGED <<response, execVars, batchVars>>

\* process or process_stream called on an agent nothing else acts on.
process(text, stream) ==
  process_begins(text, stream) /\ UNCHANGED serviceVars

\* next_iteration with range(max_iterations + 1).
next_iteration_one_more(made_so_far, yielded) ==
  IF iterations <= MaxIterations
  THEN /\ iterations' = iterations + 1
       /\ pc' = "query"
       /\ events' = IF streaming
                     THEN Append(yielded,
                                 AgentEvent("iteration_start",
                                            [iteration |-> iterations + 1]))
                     ELSE yielded
       /\ queried' = session.llm
       /\ UNCHANGED outcome
  ELSE /\ pc' = "MaxIterationsReached"
       /\ outcome' = IF streaming
                     THEN AgentEvent("max_iterations",
                                     [iterations |-> MaxIterations])
                     ELSE AgentResponse(stock_message, made_so_far,
                                        iterations)
       /\ events' = IF streaming THEN Append(yielded, outcome') ELSE yielded
       /\ UNCHANGED <<iterations, queried>>

\* The loop goes to its next iteration, or ends when there is none left;
\* `yielded` are the events of the call up to there.
next_iteration(made_so_far, yielded) ==
  IF iterations < MaxIterations
  THEN /\ iterations' = iterations + 1
       /\ pc' = "query"
       /\ events' = IF streaming
                     THEN Append(yielded,
                                 AgentEvent("iteration_start",
                                            [iteration |-> iterations + 1]))
                     ELSE yielded
       /\ queried' = session.llm
       /\ UNCHANGED outcome
  ELSE /\ pc' = "MaxIterationsReached"
       /\ outcome' = IF streaming
                     THEN AgentEvent("max_iterations",
                                     [iterations |-> MaxIterations])
                     ELSE AgentResponse(stock_message, made_so_far,
                                        iterations)
       /\ events' = IF streaming THEN Append(yielded, outcome') ELSE yielded
       /\ UNCHANGED <<iterations, queried>>

\* Lines 114-132 / 227-255: llm.complete returned (the stream ended) with
\* `content` and requests for the tools `names`.
complete_returns(content, names) ==
  /\ pc = "query"
  /\ LET r == received(content, requested(names)) IN
     /\ response' = r
     /\ IF r.tool_calls = <<>>
        THEN /\ remember(<<assistant_message(r.content, <<>>)>>)
             /\ pc' = "Final"
             /\ outcome' = IF streaming
                           THEN AgentEvent("complete",
                                           [content |-> r.content,
                                            iterations |-> iterations])
                           ELSE AgentResponse(r.content, tool_calls_made,
                                              iterations)
             /\ events' =
                  IF streaming
                  THEN events \o chunk_events(stream_chunks(content, <<>>))
                              \o <<outcome'>>
                  ELSE events
             /\ UNCHANGED <<execVars, batchVars>>
        ELSE /\ may_request(names)
             /\ remember(<<assistant_message(r.content, r.tool_calls)>>)
             /\ gather_tasks(r.tool_calls)
             /\ pc' = "tools"
             /\ events' =
                  IF streaming
                  THEN events
                         \o chunk_events(stream_chunks(content,
                                                       requested(names)))
                         \o <<AgentEvent("executing_tools",
                                         [count |-> Len(r.tool_calls)])>>
                  ELSE events
             /\ UNCHANGED outcome
  /\ UNCHANGED <<streaming, iterations, tool_calls_made, queried,
                 serviceVars>>

\* The failed query's text and tool calls recorded as an assistant message
\* all the same.
abandoned_as_received(partial) ==
  IF partial = <<>>
  THEN <<>>
  ELSE <<assistant_message(collected(partial).content,
                           collected(partial).tool_calls)>>

\* Lines 109-112 / 212-225: the return that follows a failed query comes
\* before add_assistant_message: of full_content and tool_calls, the locals
\* that hold what was received, nothing goes to the memory.
abandoned(partial) == <<>>

\* Lines 109-112 / 212-225: llm.complete raised, or the stream raised or
\* delivered an error chunk, with message `msg`; a stream may have
\* delivered text and tool calls before.
complete_raises(msg) ==
  /\ pc = "query"
  /\ pc' = "Failed"
  /\ outcome' = IF streaming
                THEN AgentEvent("error", [error |-> msg])
                ELSE AgentResponse(error_content(msg), tool_calls_made,
                                   iterations)
  /\ \E partial \in PartialStreams :
       /\ events' = IF streaming
                    THEN events \o chunk_events(partial) \o <<outcome'>>
                    ELSE events
       /\ remember(IF streaming THEN abandoned(partial) ELSE <<>>)
  /\ UNCHANGED <<streaming, iterations, response, tool_calls_made,
                 queried, execVars, batchVars, serviceVars>>

\* Lines 132-145 / 255-270: execute_parallel returned; every result goes to
\* memory, and the loop goes on.
tools_return ==
  /\ pc = "tools"
  /\ gather_returns
  /\ remember(result_messages(results_in_order(gather)))
  /\ tool_calls_made' = IF streaming
                        THEN tool_calls_made
                        ELSE tool_calls_made
                               \o made_entries(results_in_order(gather))
  /\ next_iteration(tool_calls_made',
                    IF streaming
                    THEN events
                           \o tool_result_events(results_in_order(gather))
                    ELSE events)
  /\ UNCHANGED <<streaming, response, serviceVars>>

\* await asyncio.gather(*tasks) has a task to wait for.  The loop's clock
\* is followed while it waits: gather returns with the last task.
gather_waits == \E i \in DOMAIN calls : ~done(i)

NextAgent ==
  \/ \E text \in UserMessages, stream \in BOOLEAN : process(text, stream)
  \/ \E content \in ResponseTexts, names \in Requests :
       complete_returns(content, names)
  \/ \E msg \in Messages : complete_raises(msg)
  \/ task_starts(FALSE)
  \/ \E call \in pending : task_returns(call, "out")
  \/ \E call \in pending, msg \in Messages :
       task_raises(call, "Exception", msg)
  \/ \E call \in pending : task_timeout(call)
  \/ tools_return
  \/ pc = "tools" /\ gather_waits /\ BatchTick

SpecAgent == Init /\ [][NextAgent]_vars

\* The model answers or fails every query.
Answers ==
  \/ \E content \in ResponseTexts, names \in Requests :
       complete_returns(content, names)
  \/ \E msg \in Messages : complete_raises(msg)

\* What the event loop runs while a call is in progress: the answer or the
\* failure of the model query, the next task of a batch, the end of an
\* awaited callable (wait_for sees to it), the return of gather.
Proceeds ==
  \/ Answers
  \/ task_starts(FALSE)
  \/ Completes
  \/ tools_return

\* One call of process or process_stream on a new agent.
NextOneCall ==
  \/ \E text \in UserMessages, stream \in BOOLEAN :
       turns = 0 /\ process(text, stream)
  \/ Answers
  \/ task_starts(FALSE)
  \/ Completes
  \/ tools_return
  \/ pc = "tools" /\ gather_waits /\ BatchTick

\* Every model query returns or fails and the event loop runs what is
\* ready.  One call is followed to its end.
SpecAgentFair == Init /\ [][NextOneCall]_vars /\ WF_vars(Proceeds)

\* ----------------------------------------------------------------- server
\* transport/server.py: one ReactAgent, hence one ToolExecutor, for each
\* websocket connection; tool_registry is the one registry of the process.
ClientIds == {1, 2}
\* The tools the connected clients have their agents call: a registered
\* one and one nobody registered.
ClientCallNames == {"calc", "nope"}

\* ToolExecutor(tool_registry) of a new ReactAgent: no breaker yet.
ToolExecutor == [circuit_breakers |-> <<>>]

\* _get_circuit_breaker(tool_name) of the executor of `client`.
client_circuit_breaker(client, name) ==
  IF name \in DOMAIN agents[client].circuit_breakers
  THEN agents[client].circuit_breakers[name]
  ELSE CircuitBreaker

\* Whether execute(name) of the executor of `client` invokes the callable.
client_admits(client, name) ==
  /\ registered(name)
  /\ get(name).enabled
  /\ ~check_raises(client_circuit_breaker(client, name), now)

\* Lines 183-189: a client connects; create_agent() builds its agent.
create_agent(client) ==
  /\ client \notin DOMAIN agents
  /\ agents' = (client :> ToolExecutor) @@ agents
  /\ UNCHANGED <<execVars, memVars, batchVars, agentVars, retry_state,
                 registrations, session, threads>>

\* Lines 270-272: the connection ends; agents.pop(client_id).
disconnect(client) ==
  /\ client \in DOMAIN agents
  /\ agents' = [c \in DOMAIN agents \ {client} |-> agents[c]]
  /\ UNCHANGED <<execVars, memVars, batchVars, agentVars, retry_state,
                 registrations, session, threads>>

\* The agent of `client` executes one call of the tool `name`, from the
\* lookup to the result, the callable failing at once (fails) or returning
\* at once: execute of that agent's executor, on that executor's breakers.
client_execute(client, name, fails) ==
  /\ client \in DOMAIN agents
  /\ LET cb == client_circuit_breaker(client, name)
         read == state(cb, now)
         after == IF check_raises(cb, now) THEN read
                  ELSE IF fails THEN record_failure(read, now)
                  ELSE record_success(read)
     IN  agents' =
           IF registered(name) /\ get(name).enabled
           THEN [agents EXCEPT
                   ![client].circuit_breakers = (name :> after) @@ @]
           ELSE agents
  /\ UNCHANGED <<execVars, memVars, batchVars, agentVars, retry_state,
                 registrations, session, threads>>

\* Lines 254-258: the message chat_websocket sends for an event:
\* content = event.data.get("content"), None when the event has none.
\* data = the other entries of event.data (what they hold besides a
\* failure message is left out).
ServerMessage(event) ==
  [type |-> event.type,
   content |-> IF "content" \in DOMAIN event.data
               THEN event.data.content ELSE "None",
   data |-> IF "error" \in DOMAIN event.data
            THEN [error |-> event.data.error] ELSE <<>>]

NextServer ==
  \/ \E client \in ClientIds : create_agent(client)
  \/ \E client \in ClientIds : disconnect(client)
  \/ \E client \in ClientIds, name \in ClientCallNames, fails \in BOOLEAN :
       client_execute(client, name, fails)
  \/ Tick /\ UNCHANGED outsideEngine

SpecServer == Init /\ [][NextServer]_vars

\* ---------------------------------------------------------------- session
\* transport/server.py lines 180-272: chat_websocket for one connection, a
\* single coroutine, with the agent it created, and the client at the other
\* end of the socket.
LLMs == {"settings.llm", "new_llm"}

\* ClientMessage(type=..., data={"provider": ..., "model": ...})
ClientMessage(type, model) == [type |-> type, model |-> model]

\* What a client sends: a ping, a reset, a chat message, a model switch.
ClientMessages ==
  {ClientMessage(type, "None") : type \in {"ping", "reset", "chat"}}
    \cup {ClientMessage("switch_model", llm) : llm \in LLMs}

\* What the model asks for in a session: nothing, or one call of a tool.
SessionRequests == {<<>>, <<"calc">>}

\* Messages sent and not yet taken by receive_json, at most.
MaxInFlight == 1

\* chat_websocket starts on every message as it arrives.
awaits_receive_json_always == TRUE

\* Lines 201-264: chat_websocket is at `await websocket.receive_json()`:
\* the handling of the message before, the whole `async for` over
\* process_stream included, is over.
awaits_receive_json == session.at = "receive_json"

\* update_llm that leaves self.llm as it is.
update_llm_ignored(self_llm, llm) == self_llm

\* agent.py lines 286-289: self.llm = llm
update_llm(self_llm, llm) == llm

\* The client sends a message.
client_sends(message) ==
  /\ session.connected
  /\ Len(session.inbox) < MaxInFlight
  /\ session' = [session EXCEPT !.inbox = Append(@, message)]
  /\ UNCHANGED <<execVars, memVars, batchVars, agentVars, retry_state,
                 registrations, agents, threads>>

\* The client closes the socket or is lost.
client_disconnects ==
  /\ session.connected
  /\ session' = [session EXCEPT !.connected = FALSE]
  /\ UNCHANGED <<execVars, memVars, batchVars, agentVars, retry_state,
                 registrations, agents, threads>>

\* receive_json returns the next message, which is handled to its end;
\* `llm` is the agent's self.llm after that.
takes(llm) ==
  session' = [session EXCEPT !.inbox = Tail(@), !.llm = llm]

\* Lines 214-217: a ping is answered by a pong.
receives_ping ==
  /\ awaits_receive_json
  /\ session.inbox # <<>>
  /\ Head(session.inbox).type = "ping"
  /\ takes(session.llm)
  /\ UNCHANGED <<execVars, memVars, batchVars, agentVars, retry_state,
                 registrations, agents, threads>>

\* Lines 219-224 and agent.py 282-284: agent.reset(), self.memory.clear().
reset ==
  /\ awaits_receive_json
  /\ session.inbox # <<>>
  /\ Head(session.inbox).type = "reset"
  /\ messages' = <<>>
  /\ appended' = <<>>
  /\ takes(session.llm)
  /\ UNCHANGED <<max_messages, execVars, batchVars, agentVars, retry_state,
                 registrations, agents, threads>>

\* Lines 226-248: LLMFactory.create made the model and agent.update_llm
\* took it (created), or create raised and the client is told so.
switch_model(created) ==
  /\ awaits_receive_json
  /\ session.inbox # <<>>
  /\ Head(session.inbox).type = "switch_model"
  /\ IF created
     THEN takes(update_llm(session.llm, Head(session.inbox).model))
     ELSE takes(session.llm)
  /\ UNCHANGED <<execVars, memVars, batchVars, agentVars, retry_state,
                 registrations, agents, threads>>

\* Lines 250-253: a chat message; agent.process_stream(message.content)
\* runs to its first model query.
chat(text) ==
  /\ awaits_receive_json
  /\ session.inbox # <<>>
  /\ Head(session.inbox).type = "chat"
  /\ process_begins(text, TRUE)
  /\ session' = [session EXCEPT !.inbox = Tail(@),
                                !.at = "process_stream"]
  /\ UNCHANGED <<retry_state, registrations, agents, threads>>

\* What the event loop runs for the agent while chat_websocket is in
\* `async for event in agent.process_stream(...)`.  send_json returns False
\* when the socket is gone and chat_websocket does not look at what it
\* returns (connection.py 55-66, server.py 254-258): the loop goes on,
\* connected or not.
process_stream_runs ==
  /\ session.at = "process_stream"
  /\ \/ \E content \in ResponseTexts, names \in SessionRequests :
          complete_returns(content, names)
     \/ \E msg \in Messages : complete_raises(msg)
     \/ task_starts(FALSE)
     \/ \E call \in pending : task_returns(call, "out")
     \/ \E call \in pending, msg \in Messages :
          task_raises(call, "Exception", msg)
     \/ tools_return

\* The generator is exhausted after its terminal event: chat_websocket
\* goes back to receive_json.
process_stream_ends ==
  /\ session.at = "process_stream"
  /\ pc \notin {"query", "tools"}
  /\ session' = [session EXCEPT !.at = "receive_json"]
  /\ UNCHANGED <<execVars, memVars, batchVars, agentVars, retry_state,
                 registrations, agents, threads>>

\* Lines 266-272: receive_json raises WebSocketDisconnect; the finally
\* clause drops the connection and the agent.
chat_websocket_ends ==
  /\ awaits_receive_json
  /\ session.inbox = <<>>
  /\ ~session.connected
  /\ session' = [session EXCEPT !.at = "closed"]
  /\ UNCHANGED <<execVars, memVars, batchVars, agentVars, retry_state,
                 registrations, agents, threads>>

NextSession ==
  \/ \E message \in ClientMessages : client_sends(message)
  \/ client_disconnects
  \/ receives_ping
  \/ reset
  \/ \E created \in BOOLEAN : switch_model(created)
  \/ \E text \in UserMessages : chat(text)
  \/ process_stream_runs
  \/ process_stream_ends
  \/ chat_websocket_ends

SpecSession == Init /\ [][NextSession]_vars

\* --------------------------------------------------------- breaker object
\* One CircuitBreaker(name="default") whose methods are called directly, in
\* any order.
InitBreaker ==
  /\ tools = <<>>
  /\ circuit_breakers = ("default" :> CircuitBreaker)
  /\ now = 0
  /\ ncalls = 0
  /\ pending = {}
  /\ running = {}
  /\ InitBatch
  /\ InitLoop
  /\ InitService
  /\ messages = <<>>
  /\ max_messages = DefaultMaxMessages
  /\ appended = <<>>

breaker == circuit_breakers["default"]

\* A method of the breaker leaves it as `after`.
becomes(after) ==
  /\ circuit_breakers' = [circuit_breakers EXCEPT !["default"] = after]
  /\ UNCHANGED <<tools, now, ncalls, pending, running, outsideEngine>>

\* cb.state, read directly or by cb.check().
reads_state == becomes(state(breaker, now))

calls_record_success == becomes(record_success(breaker))

\* The failure counter has no upper limit in the code; the calls followed
\* stop at FailureThreshold + MaxCalls failures counted.
calls_record_failure ==
  /\ breaker.failure_count < FailureThreshold + MaxCalls
  /\ becomes(record_failure(breaker, now))

calls_reset == becomes(breaker_reset(breaker))

NextBreaker ==
  \/ Tick /\ UNCHANGED outsideEngine
  \/ reads_state
  \/ calls_record_success
  \/ calls_record_failure
  \/ calls_reset

SpecBreaker == InitBreaker /\ [][NextBreaker]_vars

\* -------------------------------------------------------- breaker threads
\* One CircuitBreaker whose check, record_success and record_failure are
\* called from several threads; every method body is `with self._lock:`.
MaxThreads == 2
ThreadIds == 1..MaxThreads
NoThread == 0
Methods == {"check", "record_success", "record_failure"}

\* A thread that is in no method of the breaker.
Outside == [at |-> "outside", method |-> "None", read |-> CircuitBreaker]

\* lock: the thread that holds self._lock; of: where each thread is;
\* serial: the breaker a single thread gets by making the calls one after
\* the other, in the order in which they ended; completed: the calls
\* ended, by method.
Threads ==
  [lock |-> NoThread,
   of |-> [t \in ThreadIds |-> Outside],
   serial |-> CircuitBreaker,
   completed |-> [method \in Methods |-> 0]]

InitThreads ==
  /\ tools = <<>>
  /\ circuit_breakers = ("default" :> CircuitBreaker)
  /\ now = 0
  /\ ncalls = 0
  /\ pending = {}
  /\ running = {}
  /\ InitBatch
  /\ InitLoop
  /\ retry_state = RetryCallState(llm_retry)
  /\ registrations = <<>>
  /\ agents = <<>>
  /\ session = Session
  /\ threads = Threads
  /\ messages = <<>>
  /\ max_messages = DefaultMaxMessages
  /\ appended = <<>>

\* The calls begun so far.
begun ==
  threads.completed["check"] + threads.completed["record_success"]
    + threads.completed["record_failure"]
    + Cardinality({t \in ThreadIds : threads.of[t].at # "outside"})

\* Method bodies without `with self._lock`: a thread goes in at once.
acquire_unlocked(t) == TRUE

\* Lock.acquire() of `with self._lock`: the thread goes in when no thread
\* holds the lock.
acquire(t) == threads.lock = NoThread

\* The breaker after the body of `method` has run at time `at` on the
\* fields `cb`: check reads the state property.
body(method, cb, at) ==
  IF method = "check" THEN state(cb, at)
  ELSE IF method = "record_success" THEN record_success(cb)
  ELSE record_failure(cb, at)

\* A thread calls a method of the breaker and comes to its `with`.
thread_calls(t, method) ==
  /\ threads.of[t].at = "outside"
  /\ begun < MaxCalls
  /\ threads' = [threads EXCEPT
                   !.of[t] = [at |-> "with", method |-> method,
                              read |-> CircuitBreaker]]
  /\ UNCHANGED <<execVars, memVars, batchVars, agentVars, retry_state,
                 registrations, agents, session>>

\* The thread takes the lock and loads the fields its method works on.
thread_enters(t) ==
  /\ threads.of[t].at = "with"
  /\ acquire(t)
  /\ threads' = [threads EXCEPT
                   !.lock = t,
                   !.of[t].at = "locked",
                   !.of[t].read = breaker]
  /\ UNCHANGED <<execVars, memVars, batchVars, agentVars, retry_state,
                 registrations, agents, session>>

\* The thread stores what its method computed from the fields it loaded
\* and leaves the `with`: the lock is released.
thread_leaves(t) ==
  /\ threads.of[t].at = "locked"
  /\ LET method == threads.of[t].method IN
     /\ circuit_breakers' =
          [circuit_breakers EXCEPT
             !["default"] = body(method, threads.of[t].read, now)]
     /\ threads' = [threads EXCEPT
                      !.lock = NoThread,
                      !.of[t] = Outside,
                      !.serial = body(method, @, now),
                      !.completed[method] = @ + 1]
  /\ UNCHANGED <<tools, now, ncalls, pending, running, memVars, batchVars,
                 agentVars, retry_state, registrations, agents, session>>

NextThreads ==
  \/ \E t \in ThreadIds, method \in Methods : thread_calls(t, method)
  \/ \E t \in ThreadIds : thread_enters(t)
  \/ \E t \in ThreadIds : thread_leaves(t)
  \/ Tick /\ UNCHANGED outsideEngine

SpecThreads == InitThreads /\ [][NextThreads]_vars

\* ----------------------------------------------------------------- claims
\* Steps that call record_success / record_failure on the breaker of tool n.
Returns(call) == \E value \in ReturnValues : execute_returns(call, value)

Raises(call) ==
  \E kind \in ExceptionKinds, msg \in Messages :
    execute_raises(call, kind, msg)

Succeeds(n) == \E call \in pending : call.name = n /\ Returns(call)

Fails(n) ==
  \E call \in pending :
    call.name = n /\ (Raises(call) \/ execute_timeout(call))

Created(n) == n \in DOMAIN circuit_breakers

InState(n, s) == Created(n) /\ circuit_breakers[n].state = s

\* C1: a CLOSED breaker holds fewer than failure_threshold failures; a
\* record_success on it sets the failure counter to zero; a record_failure
\* adds one to the counter and stores the failure time, and opens the breaker
\* exactly when the counter reaches failure_threshold; no other step changes
\* a CLOSED breaker, and a breaker is created CLOSED with a counter of zero.
C1_ClosedOpensAtThreshold ==
  [][\A n \in ToolNames :
       /\ (~Created(n) /\ n \in DOMAIN circuit_breakers') =>
            /\ circuit_breakers'[n].state = CLOSED
            /\ circuit_breakers'[n].failure_count = 0
       /\ InState(n, CLOSED) =>
            LET cb == circuit_breakers[n]
                after == circuit_breakers'[n]
            IN  /\ cb.failure_count < FailureThreshold
                /\ Succeeds(n) =>
                     (after.state = CLOSED /\ after.failure_count = 0)
                /\ Fails(n) =>
                     /\ after.failure_count = cb.failure_count + 1
                     /\ after.last_failure = now
                     /\ after.state =
                          IF cb.failure_count + 1 = FailureThreshold
                          THEN OPEN ELSE CLOSED
                /\ (~Succeeds(n) /\ ~Fails(n)) => after = cb
    ]_vars

\* The breaker opened on the failure_threshold-th failure in a row.
C1_Witness ==
  \E n \in ToolNames :
    /\ InState(n, OPEN)
    /\ circuit_breakers[n].failure_count = FailureThreshold
    /\ circuit_breakers[n].last_failure # NoTime
    /\ ncalls = FailureThreshold

\* The recovery interval of tool n's breaker is over at the current time.
Elapsed(n) == now - circuit_breakers[n].last_failure > RecoveryTimeout

\* The step invokes the callable of the call it makes.
Invokes ==
  /\ (ncalls + 1) \in running'
  /\ \E call \in pending' : call.id = ncalls + 1

C3_LazyHalfOpen ==
  [][\A n \in ToolNames :
       InState(n, OPEN) =>
         LET cb == circuit_breakers[n]
             after == circuit_breakers'[n]
         IN  /\ after.state \in {OPEN, HALF_OPEN}
             /\ after.state = HALF_OPEN =>
                  /\ get_circuit_breaker_status \/ execute(n)
                  /\ Elapsed(n)
                  /\ after = [cb EXCEPT !.state = HALF_OPEN,
                                        !.success_count = 0]
             /\ (Succeeds(n) \/ Fails(n) \/ Tick) => after.state = OPEN
             /\ (Elapsed(n) /\ get_circuit_breaker_status) =>
                  after.state = HALF_OPEN
             /\ (Elapsed(n) /\ execute(n) /\ registered(n)
                 /\ get(n).enabled) =>
                  (after.state = HALF_OPEN /\ admits(n) /\ Invokes)
    ]_vars

\* A call admitted by the check() that found the recovery due.
C3_Witness ==
  \E n \in ToolNames :
    /\ InState(n, HALF_OPEN)
    /\ circuit_breakers[n].success_count = 0
    /\ \E call \in pending :
         /\ call.name = n
         /\ call.start - circuit_breakers[n].last_failure > RecoveryTimeout

\* C4 as stated: the record_success that reaches success_threshold in
\* HALF_OPEN closes the breaker with both counters at zero.
C4_AllCountersCleared ==
  [][\A n \in ToolNames :
       (InState(n, HALF_OPEN) /\ Succeeds(n)
        /\ circuit_breakers[n].success_count + 1 >= SuccessThreshold) =>
         /\ circuit_breakers'[n].state = CLOSED
         /\ circuit_breakers'[n].failure_count = 0
         /\ circuit_breakers'[n].success_count = 0
    ]_vars

\* C4 amended: in HALF_OPEN each record_success adds one to the success
\* counter; the one that brings it to success_threshold closes the breaker
\* with the failure counter at zero, the success counter staying at
\* success_threshold; outside HALF_OPEN the success counter changes only by
\* the reset to zero of the OPEN to HALF_OPEN transition.
C4_ClosesWithFailuresCleared ==
  [][\A n \in ToolNames :
       Created(n) =>
         LET cb == circuit_breakers[n]
             after == circuit_breakers'[n]
         IN  /\ (cb.state = HALF_OPEN /\ Succeeds(n)) =>
                  /\ after.success_count = cb.success_count + 1
                  /\ after.last_failure = cb.last_failure
                  /\ IF after.success_count = SuccessThreshold
                     THEN after.state = CLOSED /\ after.failure_count = 0
                     ELSE /\ after.state = HALF_OPEN
                          /\ after.failure_count = cb.failure_count
             /\ (cb.state # HALF_OPEN
                 /\ after.success_count # cb.success_count) =>
                  (cb.state = OPEN /\ after.state = HALF_OPEN
                   /\ after.success_count = 0)
    ]_vars

\* A breaker closed again by its success_threshold-th success.
C4_Witness ==
  \E n \in ToolNames :
    /\ InState(n, CLOSED)
    /\ circuit_breakers[n].success_count = SuccessThreshold
    /\ circuit_breakers[n].failure_count = 0

\* C5: a record_failure on a HALF_OPEN breaker opens it and stores the
\* failure time, whatever the counters; a HALF_OPEN breaker holds fewer than
\* success_threshold successes, leaves for CLOSED only by the record_success
\* that reaches success_threshold, and is changed by no other step.
C5_HalfOpenFailureReopens ==
  [][\A n \in ToolNames :
       InState(n, HALF_OPEN) =>
         LET cb == circuit_breakers[n]
             after == circuit_breakers'[n]
         IN  /\ cb.success_count < SuccessThreshold
             /\ Fails(n) =>
                  /\ after.state = OPEN
                  /\ after.last_failure = now
                  /\ after.success_count = cb.success_count
             /\ after.state = CLOSED =>
                  (Succeeds(n) /\ cb.success_count + 1 = SuccessThreshold)
             /\ (Succeeds(n) /\ cb.success_count + 1 < SuccessThreshold) =>
                  after.state = HALF_OPEN
             /\ (~Succeeds(n) /\ ~Fails(n)) => after = cb
    ]_vars

\* A breaker reopened by a failure that followed a success in HALF_OPEN.
C5_Witness ==
  \E n \in ToolNames :
    /\ InState(n, OPEN)
    /\ circuit_breakers[n].success_count > 0
    /\ circuit_breakers[n].success_count < SuccessThreshold

\* C6: execute returns one result carrying the caller's tool_call_id in
\* every case (rejected before the callable, returned, timed out, raised),
\* and a failure the callable raises yields success=false with that
\* failure's message.
C6_TotalWithMessage ==
  [][/\ \A name \in CallNames :
          (execute(name) /\ ~admits(name)) =>
            /\ early_result(ncalls + 1, name).tool_call_id = ncalls + 1
            /\ early_result(ncalls + 1, name).success = FALSE
     /\ \A call \in pending :
          /\ \A value \in ReturnValues :
               execute_returns(call, value) =>
                 success_result(call, value).tool_call_id = call.id
          /\ execute_timeout(call) =>
               /\ timeout_result(call).tool_call_id = call.id
               /\ timeout_result(call).success = FALSE
          /\ \A kind \in ExceptionKinds, msg \in Messages :
               execute_raises(call, kind, msg) =>
                 /\ raised_result(call, kind, msg).tool_call_id = call.id
                 /\ raised_result(call, kind, msg).success = FALSE
                 /\ raised_result(call, kind, msg).error =
                      [kind |-> "Tool execution error", message |-> msg]
    ]_vars

\* The elements of a sequence, as a set.
Range(seq) == {seq[i] : i \in DOMAIN seq}

Passes(n) == ~Created(n) \/ circuit_breakers[n].state # OPEN \/ Elapsed(n)

C9_TimeoutCancels ==
  [][\A call \in pending :
       execute_timeout(call) =>
         /\ call.id \notin running'
         /\ call.timeout = IF get(call.name).timeout # 0
                           THEN get(call.name).timeout
                           ELSE DefaultTimeout
         /\ circuit_breakers'[call.name].failure_count
              = circuit_breakers[call.name].failure_count + 1
         /\ timeout_result(call).success = FALSE
         /\ timeout_result(call).error.kind = "timed out after"
    ]_vars

\* C10: a call is in flight only once its breaker exists; the step that
\* ends it records one outcome on that breaker and on no other: a return
\* within the timeout records a success (one more success in HALF_OPEN,
\* failures zeroed otherwise, no failure time stored) and yields
\* success=true with the callable's value; a timeout or a raised failure
\* records a failure (one more failure, its time stored) and yields
\* success=false; and nothing else ends a call.
C10_OneOutcomePerCall ==
  [][/\ \A n \in ToolNames :
          (execute(n) /\ admits(n)) =>
            /\ n \in DOMAIN circuit_breakers'
            /\ \E call \in pending' \ pending :
                 call.id = ncalls + 1 /\ call.name = n
     /\ \A call \in pending :
          LET cb == circuit_breakers[call.name]
              after == circuit_breakers'[call.name]
              others == \A n \in DOMAIN circuit_breakers :
                          n # call.name =>
                            circuit_breakers'[n] = circuit_breakers[n]
          IN  /\ call.name \in DOMAIN circuit_breakers
              /\ \A value \in ReturnValues :
                   execute_returns(call, value) =>
                     /\ now - call.start < call.timeout
                     /\ success_result(call, value).success = TRUE
                     /\ success_result(call, value).result = value
                     /\ success_result(call, value).tool_call_id = call.id
                     /\ after.last_failure = cb.last_failure
                     /\ IF cb.state = HALF_OPEN
                        THEN after.success_count = cb.success_count + 1
                        ELSE /\ after.failure_count = 0
                             /\ after.success_count = cb.success_count
                             /\ after.state = cb.state
                     /\ others
              /\ (execute_timeout(call) \/ Raises(call)) =>
                   /\ after.failure_count = cb.failure_count + 1
                   /\ after.last_failure = now
                   /\ after.success_count = cb.success_count
                   /\ others
              /\ execute_timeout(call) =>
                   (now - call.start >= call.timeout
                    /\ timeout_result(call).success = FALSE)
              /\ \A kind \in ExceptionKinds, msg \in Messages :
                   execute_raises(call, kind, msg) =>
                     raised_result(call, kind, msg).success = FALSE
              /\ call \notin pending' =>
                   (Returns(call) \/ Raises(call) \/ execute_timeout(call))
    ]_vars

\* The breaker of a coroutine tool after one recorded failure, no call of
\* the tool in flight.
C10_Witness ==
  \E n \in ToolNames :
    /\ get(n).is_async
    /\ InState(n, CLOSED)
    /\ circuit_breakers[n].failure_count = 1
    /\ circuit_breakers[n].last_failure = now
    /\ \A call \in pending : call.name # n

\* The last n elements of a sequence (all of it when it is shorter).
Last(seq, n) ==
  IF Len(seq) <= n THEN seq ELSE SubSeq(seq, Len(seq) - n + 1, Len(seq))

\* C13: once a memory with max_messages = M has taken M + K appends
\* (K >= 0, any mix of add_user_message, add_assistant_message and
\* add_tool_result), get_messages() is exactly the M messages appended last,
\* in the order they were appended; before that it ends with all the
\* messages appended so far.
C13_KeepsLastM ==
  /\ Len(appended) >= max_messages =>
       /\ Len(get_messages) = max_messages
       /\ \A i \in 1..max_messages :
            get_messages[i] = appended[Len(appended) - max_messages + i]
  /\ Len(appended) < max_messages =>
       Last(get_messages, Len(appended)) = appended

\* A memory that has dropped messages: more appends than max_messages.
C13_Witness ==
  /\ Len(appended) > max_messages
  /\ Len(messages) = max_messages
  /\ \E i, j \in DOMAIN messages : messages[i].role # messages[j].role

\* C15: replacing a memory by from_dict(to_dict()) of itself leaves the
\* message sequence as it was, position by position in role, content,
\* tool_call_id and tool_calls, also when the memory holds more messages
\* than the default max_messages of the object from_dict constructs.
C15_RoundTrip ==
  [][reload =>
       /\ Len(messages') = Len(messages)
       /\ \A i \in DOMAIN messages :
            /\ messages'[i].role = messages[i].role
            /\ messages'[i].content = messages[i].content
            /\ messages'[i].tool_call_id = messages[i].tool_call_id
            /\ messages'[i].tool_calls = messages[i].tool_calls
    ]_vars

\* A reconstructed memory longer than the default bound, holding a message
\* with tool calls and one with a tool_call_id.
C15_Witness ==
  /\ appended = <<>>
  /\ Len(messages) > DefaultMaxMessages
  /\ max_messages = DefaultMaxMessages
  /\ \E i \in DOMAIN messages : messages[i].tool_calls # NoToolCalls
  /\ \E i \in DOMAIN messages : messages[i].tool_call_id # NoToolCallId

\* C11: the list execute_parallel returns has one result for each call of
\* the input list, at the call's position: results[i] carries the
\* tool_call_id and the tool name of calls[i], in whatever order the calls
\* finished; every task finishes once.
C11_ResultsInInputOrder ==
  [][/\ execute_parallel_returns =>
          /\ Len(gather) = Len(calls)
          /\ \A i \in DOMAIN calls :
               /\ gather[i].tool_call_id = calls[i].id
               /\ gather[i].tool_name = calls[i].name
     /\ \A i, j \in DOMAIN finished :
          finished[i] = finished[j] => i = j
     /\ \A i \in DOMAIN calls :
          done(i) <=> \E k \in DOMAIN finished : finished[k] = i
    ]_vars

\* A batch about to return whose second call finished before its first.
C11_Witness ==
  /\ Len(calls) >= 2
  /\ \A i \in DOMAIN calls : done(i)
  /\ \E k \in DOMAIN finished :
       finished[k] = 1 /\ \E l \in 1..(k - 1) : finished[l] = 2

\* The step ends the await of `call`.
Ends(call) == call \in pending /\ call \notin pending'

\* C12: execute_parallel returns only when every call of the batch has its
\* result and none is still awaited; a call whose callable never returns
\* ends by its timeout, with a timed-out failure as its result; the end of
\* one call leaves every other call in flight awaited, running and without
\* a result, and a call in flight that is not hung can return as long as
\* its own timeout has not expired; and every batch that is started
\* returns.
C12_BarrierCompletes ==
  /\ [][/\ execute_parallel_returns =>
             /\ \A i \in DOMAIN calls : done(i)
             /\ pending = {}
        /\ \A call \in pending :
             /\ (Ends(call) /\ call.id \in hung) =>
                  /\ now - call.start >= call.timeout
                  /\ results'[position(call)].success = FALSE
                  /\ results'[position(call)].error.kind = "timed out after"
                  /\ results'[position(call)].tool_call_id = call.id
             /\ Ends(call) =>
                  \A other \in pending \ {call} :
                    /\ other \in pending'
                    /\ other.id \in running'
                    /\ ~done(position(other))
                    /\ results'[position(other)] = NoResult
       ]_vars
  /\ [](\A call \in pending :
          (call.id \notin hung /\ now - call.start < call.timeout) =>
            ENABLED task_returns(call, "out"))
  /\ (calls # <<>>) ~> (calls = <<>>)

\* A batch about to return in which a hung call timed out after another
\* call of the batch had returned its own value.
C12_Witness ==
  /\ \A i \in DOMAIN calls : done(i)
  /\ \E k, l \in DOMAIN finished :
       /\ l < k
       /\ calls[finished[k]].id \in hung
       /\ results[finished[k]].error.kind = "timed out after"
       /\ results[finished[l]].success
       /\ results[finished[l]].execution_time_ms
            < results[finished[k]].execution_time_ms

\* The assistant message at position j of the memory requested the call id.
Requested(j, id) ==
  /\ messages[j].role = "assistant"
  /\ \E k \in DOMAIN messages[j].tool_calls :
       messages[j].tool_calls[k].id = id

\* C14: every tool_result message in memory comes after an assistant
\* message in memory whose tool_calls hold its tool_call_id.
C14_ResultsFollowTheirCall ==
  \A i \in DOMAIN messages :
    messages[i].role = "tool_result" =>
      \E j \in 1..(i - 1) : Requested(j, messages[i].tool_call_id)

\* The ids of the tool_result messages at the end of a list of messages.
last_ids(msgs, n) ==
  [i \in 1..n |-> msgs[Len(msgs) - n + i].tool_call_id]

\* C16: when a model query after the first is issued and the memory has
\* dropped nothing, the memory ends with the previous iteration: one
\* assistant message with the text of the response and all the calls it
\* requested, not preceded by another assistant message, and then one
\* tool_result message for each requested call and no other.
C16_IterationInMemory ==
  (pc = "query" /\ iterations >= 2 /\ Len(messages) = Len(appended)) =>
    LET n == Len(response.tool_calls)
        at == Len(messages) - n
    IN  /\ n >= 1
        /\ at >= 2
        /\ messages[at].role = "assistant"
        /\ messages[at].content = response.content
        /\ Len(messages[at].tool_calls) = n
        /\ \A k \in 1..n :
             /\ messages[at].tool_calls[k].id = response.tool_calls[k].id
             /\ messages[at].tool_calls[k].name
                  = response.tool_calls[k].name
        /\ messages[at - 1].role # "assistant"
        /\ \A i \in 1..n : messages[at + i].role = "tool_result"
        /\ \A k \in 1..n :
             Cardinality({i \in 1..n : messages[at + i].tool_call_id
                                         = response.tool_calls[k].id}) = 1

\* The second query of a call whose first response requested two tools.
C16_Witness ==
  /\ pc = "query"
  /\ iterations = 2
  /\ Len(messages) = Len(appended)
  /\ Len(response.tool_calls) = 2

\* C17 as stated: the tool_result messages of a batch are appended in the
\* order in which the calls finished.
C17_AppendInCompletionOrder ==
  [][tools_return =>
       last_ids(appended', Len(calls))
         = [k \in DOMAIN finished |-> calls[finished[k]].id]
    ]_vars

\* C17 amended: the tool_result messages of a batch are appended, one per
\* call and nothing between them, in the order in which the model requested
\* the calls, which need not be the order in which the calls finished.
C17_AppendInRequestOrder ==
  [][tools_return =>
       /\ Len(appended') = Len(appended) + Len(calls)
       /\ \A i \in DOMAIN calls :
            /\ appended'[Len(appended) + i].role = "tool_result"
            /\ appended'[Len(appended) + i].tool_call_id = calls[i].id
            /\ calls[i].id = response.tool_calls[i].id
    ]_vars

\* The loop awaits a batch all of whose calls are done, the second before
\* the first.
C17_Witness ==
  /\ pc = "tools"
  /\ Len(calls) >= 2
  /\ \A i \in DOMAIN calls : done(i)
  /\ finished[1] = 2

\* The step issues a model query.
Queries == pc' = "query" /\ (pc # "query" \/ iterations' # iterations)

\* Nothing of the engine is awaited.
NoToolInFlight == calls = <<>> /\ pending = {}

\* C18: the model queries of a call are numbered 1, 2, ... by iterations;
\* when the response to query k requests no tool, the loop ends in Final
\* without another query or tool call: it appends that response's text as
\* one assistant message without tool calls and reports that text as
\* content and k as iterations, the k - 1 earlier responses having each
\* requested tools.
C18_FinalAtQueryK ==
  [][/\ Queries =>
          iterations' = IF pc = "tools" THEN iterations + 1 ELSE 1
     /\ \A content \in ResponseTexts :
          complete_returns(content, <<>>) =>
            /\ pc' = "Final"
            /\ iterations' = iterations
            /\ appended' = Append(appended,
                 [role |-> "assistant", content |-> content,
                  tool_call_id |-> NoToolCallId, tool_calls |-> NoToolCalls])
            /\ NoToolInFlight /\ NoToolInFlight'
            /\ ncalls' = ncalls
            /\ outcome' = IF streaming
                          THEN [type |-> "complete",
                                data |-> [content |-> content,
                                          iterations |-> iterations]]
                          ELSE [type |-> "AgentResponse",
                                content |-> content,
                                tool_calls_made |-> tool_calls_made,
                                iterations |-> iterations]
            /\ Len(SelectSeq(appended, LAMBDA m : m.tool_calls # NoToolCalls))
                 >= iterations - 1
     /\ pc = "Final" => (Queries => iterations' = 1)
     /\ (pc' = "Final" /\ pc # "Final") =>
          \E content \in ResponseTexts : complete_returns(content, <<>>)
    ]_vars

\* process ended in Final at its second query, after one successful tool
\* call.
C18_Witness ==
  /\ pc = "Final"
  /\ ~streaming
  /\ iterations = 2
  /\ outcome.iterations = 2
  /\ outcome.content \in ResponseTexts
  /\ Len(outcome.tool_calls_made) = 1
  /\ outcome.tool_calls_made[1].success

entries(name) == SelectSeq(tools, LAMBDA t : t.name = name)

\* C30: registering under a name the registry already holds replaces the
\* entry without an error: afterwards the registry holds exactly one entry
\* for the name, get(name) has the new callable, description, timeout and
\* tags, and every other entry is as it was.
C30_LastWriterWins ==
  [][\A func \in Callables, name \in NameOverrides,
        description \in Descriptions, timeout \in Timeouts,
        tags \in TagLists :
       LET n == tool_name(func, name) IN
       (registered(n)
        /\ register(func, name, description, timeout, tags)) =>
         /\ Len(entries(n)') = 1
         /\ Len(tools') = Len(tools)
         /\ get(n)'.func = func
         /\ get(n)'.is_async = func.is_async
         /\ get(n)'.description = schema_description(func, description)
         /\ get(n)'.timeout = timeout
         /\ get(n)'.tags = tags
         /\ get(n)'.enabled
         /\ \A i \in DOMAIN tools : tools[i].name # n => tools'[i] = tools[i]
    ]_vars

\* "calc" was registered twice, the second time with another callable,
\* and the registry holds one entry for it, with the second description.
C30_Witness ==
  /\ registrations = <<"calc", "calc">>
  /\ Len(entries("calc")) = 1
  /\ get("calc").func.name = "shell"
  /\ get("calc").description = "A test tool"

\* The wrapper gave up: its last attempt raised a retryable failure.
GaveUp ==
  /\ retry_state.outcome.status = "raised"
  /\ retry_if_exception_type(retry_state.policy.retryable_exceptions,
                             retry_state.outcome.exception)

\* C28: a failure that reaches the caller after the attempts are used up is
\* the last failure inside a give-up wrapper, raised after max_attempts
\* attempts; a failure that is not retryable reaches the caller as it is,
\* from the attempt that raised it.
C28_GiveUpIsWrapped ==
  retry_state.outcome.status = "raised" =>
    /\ retry_state.outcome.exception
         = retry_state.failures[Len(retry_state.failures)]
    /\ Len(retry_state.failures) = retry_state.attempt_number
    /\ IF GaveUp
       THEN /\ retry_state.outcome.wrapped
            /\ retry_state.attempt_number = retry_state.policy.max_attempts
       ELSE ~retry_state.outcome.wrapped

\* min(max_wait, min_wait * 2^(a-1)) clamped to [min_wait, max_wait].
claimed_wait(policy, a) ==
  Max(policy.min_wait,
      Min(policy.max_wait, policy.min_wait * 2 ^ (a - 1)))

\* C29: the wait that follows attempt a is min(max_wait, min_wait * 2^(a-1))
\* clamped to [min_wait, max_wait], for every policy, and no more than
\* max_attempts attempts are made.
C29_WaitIsMinWaitDoubling ==
  /\ retry_state.attempt_number <= retry_state.policy.max_attempts
  /\ \A a \in DOMAIN retry_state.slept :
       retry_state.slept[a] = claimed_wait(retry_state.policy, a)

\* The query of the loop fails with an exception of class `kind` and
\* message `msg`: except Exception catches every class alike.
query_fails(kind, msg) == kind \in FailureKinds /\ complete_raises(msg)

\* C27: the loop treats a query as failed on a retryable failure only when
\* the retry policy of the model queries has made max_attempts attempts and
\* given up with that failure; and the engine invokes the callable of a
\* requested call once, under an id no earlier invocation had.
C27_QueriesAreRetried ==
  [][/\ \A kind \in llm_retry.retryable_exceptions, msg \in Messages :
          query_fails(kind, msg) =>
            /\ retry_state'.policy = llm_retry
            /\ retry_state'.attempt_number = llm_retry.max_attempts
            /\ retry_state'.outcome.status = "raised"
            /\ retry_state'.outcome.exception = kind
     /\ \A id \in running' \ running : id = ncalls + 1 /\ ncalls' = id
    ]_vars

\* The agent of `client` invokes the callable of the tool `name`.
client_invokes(client, name) ==
  /\ client \in DOMAIN agents
  /\ client_admits(client, name)
  /\ \E fails \in BOOLEAN : client_execute(client, name, fails)

\* C26: the breaker of a tool is one for all connections: while it rejects
\* the calls of one connection, having opened on that connection's
\* failures, no connection invokes the tool.
C26_BreakersAreShared ==
  [][\A c \in DOMAIN agents, d \in DOMAIN agents, name \in ToolNames :
       check_raises(client_circuit_breaker(c, name), now) =>
         ~client_invokes(d, name)
    ]_vars

\* The ten types of the wire protocol, and the three that end a call.
WireTypes ==
  {"processing_start", "iteration_start", "text_delta", "tool_start",
   "tool_call_complete", "executing_tools", "tool_result", "complete",
   "error", "max_iterations"}

TerminalTypes == {"complete", "error", "max_iterations"}

OfType(evs, types) == SelectSeq(evs, LAMBDA ev : ev.type \in types)

\* process_stream has ended.
Ended == pc \in {"Final", "Failed", "MaxIterationsReached"}

\* C24: the events of a process_stream call begin with the one
\* processing_start, the iteration_start events carry 1, 2, 3, ... in
\* turn, there is no event after a terminal event, a call that has ended
\* has yielded exactly one terminal event, a call in progress none, and
\* every type is one of the ten wire types.
C24_EventShape ==
  streaming =>
    /\ events # <<>>
    /\ events[1].type = "processing_start"
    /\ Len(OfType(events, {"processing_start"})) = 1
    /\ LET starts == OfType(events, {"iteration_start"})
       IN  /\ Len(starts) = iterations
           /\ \A k \in DOMAIN starts : starts[k].data.iteration = k
    /\ \A i \in DOMAIN events :
         /\ events[i].type \in WireTypes
         /\ events[i].type \in TerminalTypes => i = Len(events)
    /\ Len(OfType(events, TerminalTypes)) = IF Ended THEN 1 ELSE 0
    /\ Ended => events[Len(events)] = outcome

\* A stream with text and tool calls in its first iteration ran out of
\* iterations.
C24_Witness ==
  /\ streaming
  /\ pc = "MaxIterationsReached"
  /\ events[Len(events)].type = "max_iterations"
  /\ Len(OfType(events, {"iteration_start"})) = MaxIterations
  /\ events[3].type = "text_delta"
  /\ events[4].type = "tool_start"

\* The place in events of the iteration_start of iteration k, and the
\* events of iteration k: those after it, up to the next iteration_start.
start_at(k) ==
  CHOOSE i \in DOMAIN events :
    events[i].type = "iteration_start" /\ events[i].data.iteration = k

iteration_events(k) ==
  SubSeq(events, start_at(k) + 1,
         IF k < iterations THEN start_at(k + 1) - 1 ELSE Len(events))

\* Iteration k is over: the next one has started or the call has ended.
Over(k) == k < iterations \/ Ended

\* What the memory was given since the last user message.
since_user ==
  LET last == CHOOSE i \in DOMAIN appended :
                /\ appended[i].role = "user"
                /\ \A j \in DOMAIN appended :
                     appended[j].role = "user" => j <= i
  IN  SubSeq(appended, last + 1, Len(appended))

final_text ==
  IF ~streaming THEN outcome.content
  ELSE LET m == ServerMessage(outcome)
       IN  IF m.content # "None" THEN m.content
           ELSE IF "error" \in DOMAIN m.data THEN m.data.error
           ELSE "None"

\* C22: every call that has ended has given the user a text: the answer of
\* the model in Final, the stock message in MaxIterationsReached, the
\* message of the failure in Failed, in process and in process_stream.
C22_TerminalYieldsText ==
  /\ pc = "Final" => final_text = response.content
  /\ pc = "MaxIterationsReached" => final_text = stock_message
  /\ pc = "Failed" =>
       \E msg \in Messages : final_text \in {msg, error_content(msg)}

\* C23: what a step of the loop does to the memory, the engine, the batch
\* of tool calls, the position of the loop and the iteration count is the
\* same function of the state and of what the model and the tools deliver,
\* whether the call is process or process_stream; and the iteration count
\* a call reports when it ends is the count of the loop.
C23_SameStateMachine ==
  [][/\ \A text \in UserMessages, stream \in BOOLEAN :
          process(text, stream) =>
            /\ messages' = append_and_trim(messages, user_message(text))
            /\ appended' = Append(appended, user_message(text))
            /\ pc' = "query"
            /\ iterations' = 1
            /\ UNCHANGED <<execVars, batchVars>>
     /\ \A content \in ResponseTexts, names \in Requests :
          complete_returns(content, names) =>
            LET tool_calls == requested(names)
                said == assistant_message(content, tool_calls)
            IN  /\ response' = LLMResponse(content, tool_calls)
                /\ messages' = append_and_trim(messages, said)
                /\ appended' = Append(appended, said)
                /\ calls' = [i \in DOMAIN tool_calls |->
                               tool_call_dict(tool_calls[i])]
                /\ pc' = IF names = <<>> THEN "Final" ELSE "tools"
                /\ iterations' = iterations
                /\ UNCHANGED execVars
     /\ \A msg \in Messages :
          complete_raises(msg) =>
            /\ pc' = "Failed"
            /\ UNCHANGED <<iterations, memVars, execVars, batchVars>>
     /\ tools_return =>
          /\ messages' = add_all(messages, result_messages(gather))
          /\ appended' = appended \o result_messages(gather)
          /\ calls' = <<>>
          /\ UNCHANGED execVars
          /\ pc' = IF iterations < MaxIterations
                   THEN "query" ELSE "MaxIterationsReached"
          /\ iterations' = IF iterations < MaxIterations
                           THEN iterations + 1 ELSE iterations
     /\ (pc' \in {"Final", "MaxIterationsReached"} /\ pc' # pc) =>
          iterations' = IF streaming'
                        THEN outcome'.data.iterations
                        ELSE outcome'.iterations
    ]_vars

\* process_stream ended in Final at its second query, its memory the five
\* messages process leaves: user, assistant with two tool calls, their
\* results in the order of the calls, and the answer.
C23_Witness ==
  /\ streaming
  /\ pc = "Final"
  /\ iterations = 2
  /\ Len(appended) = 5
  /\ appended[2].tool_calls = tc_dicts(<<ToolCall(1, "calc"),
                                        ToolCall(2, "nope")>>)
  /\ appended[3].tool_call_id = 1
  /\ appended[4].tool_call_id = 2
  /\ appended[5] = assistant_message("text", <<>>)

\* C21: a call in progress ends, in Final, MaxIterationsReached or Failed,
\* with the one outcome of that end; and a tool that raises or runs into
\* its timeout, or a query that fails, leaves the loop running or ended
\* with a failed result or an error response in hand.
C21_CallTerminates ==
  /\ (pc \in {"query", "tools"}) ~> Ended
  /\ [](Ended =>
          outcome.type =
            IF ~streaming THEN "AgentResponse"
            ELSE IF pc = "Final" THEN "complete"
            ELSE IF pc = "Failed" THEN "error"
            ELSE "max_iterations")
  /\ [][/\ \A call \in pending :
             (task_timeout(call)
              \/ \E msg \in Messages : task_raises(call, "Exception", msg))
             => /\ pc' = "tools"
                /\ results'[position(call)] # NoResult
                /\ results'[position(call)].tool_call_id = call.id
                /\ ~results'[position(call)].success
        /\ \A msg \in Messages : complete_raises(msg) => Ended'
       ]_vars

\* A call ended although a tool of its first batch raised and a tool of
\* its second batch ran into its timeout.
C21_Witness ==
  /\ Ended
  /\ \E i \in DOMAIN appended, j \in DOMAIN appended :
       /\ i < j
       /\ appended[i].role = "tool_result"
       /\ appended[j].role = "tool_result"
       /\ "error" \in DOMAIN appended[i].content
       /\ "error" \in DOMAIN appended[j].content
       /\ appended[i].content.error.kind = "Tool execution error"
       /\ appended[j].content.error.kind = "timed out after"

\* C36: whatever methods of a breaker were called, a CLOSED breaker has
\* counted fewer failures than failure_threshold, and an OPEN or HALF_OPEN
\* breaker has a last-failure time.
C36_BreakerInvariant ==
  /\ breaker.state = CLOSED => breaker.failure_count < FailureThreshold
  /\ breaker.state \in {OPEN, HALF_OPEN} => breaker.last_failure # NoTime

\* A breaker that was reset after it had opened, and has counted a failure
\* since.
C36_Witness ==
  /\ breaker.state = CLOSED
  /\ breaker.failure_count = FailureThreshold - 1
  /\ breaker.last_failure > 0

\* C38: a failure recorded on an OPEN breaker (by a call admitted before
\* it opened) leaves it OPEN, counts, and stores the time of that failure;
\* no other step changes the stored time of an OPEN breaker, and the breaker
\* leaves OPEN for HALF_OPEN only when more than recovery_timeout has passed
\* since the stored time, that is since the latest failure.
C38_FailureWhileOpenRestartsRecovery ==
  [][\A n \in ToolNames :
       InState(n, OPEN) =>
         LET cb == circuit_breakers[n]
             after == circuit_breakers'[n]
         IN  /\ Fails(n) =>
                  /\ after.state = OPEN
                  /\ after.last_failure = now
                  /\ after.failure_count = cb.failure_count + 1
             /\ ~Fails(n) => after.last_failure = cb.last_failure
             /\ after.state = HALF_OPEN =>
                  now - cb.last_failure > RecoveryTimeout
    ]_vars

\* An OPEN breaker that has counted a failure since it opened, at a time
\* when no recovery could have been attempted yet; the clock has moved on
\* and the recovery interval since that failure is not over.
C38_Witness ==
  \E n \in ToolNames :
    /\ InState(n, OPEN)
    /\ circuit_breakers[n].failure_count = FailureThreshold + 1
    /\ circuit_breakers[n].last_failure = RecoveryTimeout
    /\ now = RecoveryTimeout + 1

\* C37: a call that execute rejects before the invocation (unknown tool,
\* disabled tool, breaker open) leaves every breaker as it was -- state,
\* counters, last-failure time -- creates no breaker and invokes nothing;
\* its result is the rejection.
C37_RejectionTouchesNoBreaker ==
  [][(launched < Len(calls) /\ launched' = launched + 1) =>
       LET tc == calls[launched + 1]
       IN  ~admits(tc.name) =>
             /\ circuit_breakers' = circuit_breakers
             /\ UNCHANGED <<pending, running>>
             /\ results'[launched + 1] = early_result(tc.id, tc.name)
    ]_vars

\* A call rejected by the OPEN breaker of its tool after the clock had moved
\* on: the breaker still holds the time of its last failure.
C37_Witness ==
  /\ Len(results) = 1
  /\ results[1] = unavailable_result(calls[1].id, "calc")
  /\ InState("calc", OPEN)
  /\ circuit_breakers["calc"].failure_count = FailureThreshold
  /\ circuit_breakers["calc"].last_failure < now

\* C39: whatever add_user_message, add_assistant_message, add_tool_result,
\* clear and from_dict calls were made, a memory holds no more than its
\* max_messages messages.
C39_BoundedByMaxMessages == Len(messages) <= max_messages

\* The assistant messages among `msgs`.
assistant_entries(msgs) == SelectSeq(msgs, LAMBDA e : e.role = "assistant")

\* C40: the step in which a model query fails at iteration k -- whatever
\* text and tool calls had been received -- leaves the memory as it was when
\* the query was issued, starts no tool call and touches no breaker; the
\* memory then holds, since the user message, the k - 1 assistant messages of
\* the earlier iterations and ends with the user message or a tool result.
C40_FailedQueryCommitsNothing ==
  [][\A msg \in Messages :
       complete_raises(msg) =>
         /\ messages' = messages
         /\ appended' = appended
         /\ UNCHANGED <<ncalls, pending, running, circuit_breakers>>
         /\ calls' = <<>> /\ results' = <<>>
         /\ Len(assistant_entries(since_user')) = iterations - 1
         /\ appended'[Len(appended')].role \in {"user", "tool_result"}
    ]_vars

\* A stream that broke at the second query after it had delivered text and
\* a complete tool call: the memory ends with the tool result of the first
\* iteration and the call that was received has no number in the engine.
C40_Witness ==
  /\ pc = "Failed"
  /\ streaming
  /\ iterations = 2
  /\ Len(OfType(iteration_events(2), {"tool_call_complete"})) = 1
  /\ Len(OfType(iteration_events(2), {"text_delta"})) = 1
  /\ appended[Len(appended)].role = "tool_result"
  /\ Len(assistant_entries(appended)) = 1
  /\ ncalls = Len(appended) - 2

\* The tools of the registry that are enabled and, when tags are given,
\* carry one of them.
listed(tags) ==
  {t \in Range(tools) :
     /\ t.enabled
     /\ tags # NoTags => Range(t.tags) \cap Range(tags) # {}}

queries_model == pc # "query" /\ pc' = "query"

\* C32: handling a reset empties the memory and leaves self.llm, the
\* registry, the breakers and the loop's state alone; a model switch that
\* reaches update_llm makes self.llm the model asked for and leaves the
\* memory, the registry and the breakers alone; every model query goes to
\* the self.llm of the moment, hence to the new model after a switch.
C32_ResetAndSwitchFrames ==
  [][/\ reset =>
          /\ messages' = <<>>
          /\ session'.llm = session.llm
          /\ UNCHANGED <<max_messages, execVars, batchVars, agentVars,
                          agents>>
     /\ switch_model(TRUE) =>
          /\ session'.llm = Head(session.inbox).model
          /\ UNCHANGED <<memVars, execVars, batchVars, agentVars, agents>>
     /\ queries_model => queried' = session'.llm
    ]_vars

\* A query is out to the new model, on a memory that was reset after a
\* tool had failed: the breaker of the tool still counts the failure.
C32_Witness ==
  /\ pc = "query"
  /\ queried = "new_llm"
  /\ Len(appended) = 1
  /\ "calc" \in DOMAIN circuit_breakers
  /\ circuit_breakers["calc"].failure_count = 1

\* C33: while a process_stream call is at a model query or at its tools,
\* chat_websocket is inside the `async for` over it; a step that takes a
\* message off the socket (chat, reset, switch or ping) happens only when
\* no call is in progress and the call before has yielded its terminal
\* event, and a step that starts a call or resets the memory happens only
\* then.
C33_OneMessageAtATime ==
  /\ []((pc \in {"query", "tools"}) => session.at = "process_stream")
  /\ [][Len(session'.inbox) < Len(session.inbox) =>
          /\ pc \notin {"query", "tools"}
          /\ events # <<>> => events[Len(events)].type \in TerminalTypes
      ]_vars
  /\ [][(iterations' < iterations \/ Len(appended') < Len(appended)) =>
          pc \notin {"query", "tools"}
      ]_vars

\* A message waits on the socket while the call for the chat message
\* before is at its tools.
C33_Witness ==
  /\ session.at = "process_stream"
  /\ pc = "tools"
  /\ launched > 0
  /\ session.inbox # <<>>

\* C34: once the client of a session is gone while a chat message is being
\* processed, no model query is issued and no tool call is started for
\* that session.
C34_DisconnectCancels ==
  [][(~session.connected /\ session.at = "process_stream") =>
       /\ ~queries_model
       /\ launched' <= launched
    ]_vars

\* The threads inside a method body of the breaker.
inside == {t \in ThreadIds : threads.of[t].at = "locked"}

\* C35: at most one thread is inside a method body of a breaker, and it
\* holds the lock; the fields it loaded stay as they are until it leaves;
\* the breaker is at every moment what the calls ended so far give when
\* made one after the other in the order in which they ended; and when
\* only record_failure calls have ended, the failure counter is their
\* number.
C35_CallsAreSerialized ==
  /\ Cardinality(inside) <= 1
  /\ \A t \in inside : threads.lock = t /\ threads.of[t].read = breaker
  /\ breaker = threads.serial
  /\ (threads.completed["record_success"] = 0)
       => breaker.failure_count = threads.completed["record_failure"]

\* A record_failure call waits at the lock while another is inside, after
\* a first one has ended.
C35_Witness ==
  /\ \E t, u \in ThreadIds :
       /\ threads.of[t].at = "locked"
       /\ threads.of[u].at = "with"
       /\ threads.of[t].method = "record_failure"
       /\ threads.of[u].method = "record_failure"
  /\ threads.completed["record_failure"] = 1
  /\ breaker.failure_count = 1

====
